---- MODULE Spec2Model ----
(***************************************************************************)
(* Key-lifecycle and rotation-audit subsystem:                             *)
(*   KeyMetadataRepository  (metadata store, JSON file)                    *)
(*   KeyMetadataRepositoryValidator                                        *)
(*   KeyLifecycleManager    (policy, audit bookkeeping)                    *)
(*   KeyLifecycleService    (rotateKeyWithAudit transaction)               *)
(* Time is a logical clock `now` counted in ticks, TicksPerDay ticks a     *)
(* day.  An optional Date that is undefined is the value Undef.            *)
(***************************************************************************)
EXTENDS Integers, Sequences, FiniteSets, TLC

\* ------------------------------------------------------------- bounds
MaxOps == 3          \* top-level calls made by the single caller
MaxNow == 1          \* last tick of the logical clock
MaxCallsBeforeRotation == 1 \* calls that may precede a rotateKeyWithAudit call
TicksPerDay == 2     \* clock resolution (ticks in 86400000 ms)
MaxAuditCalls == 103 \* recordAuditEvent calls in SpecAudit

\* --------------------------------------------------- program constants
MAX_AUDIT_EVENTS == 100
MAX_HEALTH_CHECK_ENTRIES == 50
MAX_ROTATION_HEALTH_ENTRIES == 25

\* ------------------------------------------------------- input domains
KeyNames == {"K1", "K2"}
KeyOrder == <<"K1", "K2">>
SecretFiles == {"base", "alt"}
BASE_ENV_FILE == "base"
KeyFilePath == BASE_ENV_FILE   \* the keyFilePath every rotation is given
KeyValues == {"kA", "kB"}
StoreKeyValues == {"kA"}
CheckSources == {"manual"}
NewKeyValues == KeyValues
NoKey == "absent"
EnvironmentFile == "dev"
VarOrder == <<"V1", "V2">>
VarNames == {"V1", "V2"}
Reasons == {"manual", "expired"}
CustomMaxAges == {0, -1}        \* 0: customMaxAge not given (falsy)
ProcessConfigs == {[maxAgeInDays |-> 2, warningThresholdInDays |-> 1]}
Undef == -1
Infinity == 1000     \* the number Infinity: typeof 'number', not NaN, >= 0
NaN == -1000         \* the number NaN: typeof 'number', every comparison false
NotNumber == -2000   \* a value whose typeof is not 'number'
NotADate == -2       \* a value that is not a Date with a valid getTime()

VARIABLES
  keyRotationConfig, \* KeyLifecycleManager.keyRotationConfig (constructor)
  now,               \* the clock
  metaFile,          \* the metadata file: key name -> KeyMetadata
  secrets,           \* secret files: file -> key name -> value or NoKey
  env,               \* the environment file: variable -> value
  pc,                \* position of the caller inside rotateKeyWithAudit
  rot,               \* locals of the rotateKeyWithAudit call in flight
  ops                \* calls made so far

vars == <<keyRotationConfig, now, metaFile, secrets, env, pc, rot, ops>>

\* ------------------------------------------------------------ helpers
Last(s, n) == IF Len(s) > n THEN SubSeq(s, Len(s) - n + 1, Len(s)) ELSE s
Includes(s, x) == \E i \in 1..Len(s) : s[i] = x
Put(m, k, v) == [x \in (DOMAIN m) \cup {k} |-> IF x = k THEN v ELSE m[x]]
EmptyMap == [x \in {} |-> 0]

\* ------------------------------------------------------- JS numbers
\* typeof value === 'number'
isNumber(value) == value # NotNumber
\* <, <= and >= of two numbers: false as soon as one of them is NaN
Less(a, b) == a # NaN /\ b # NaN /\ a < b
LessEq(a, b) == a # NaN /\ b # NaN /\ a <= b
GreaterEq(a, b) == a # NaN /\ b # NaN /\ a >= b

\* ------------------------------------------- environment-file values
\* A value with the encrypted-format prefix carries the key material it
\* was encrypted under and its plaintext; a plain value carries its text.
PlainValue(text) == [enc |-> FALSE, key |-> "none", pt |-> text]
CipherValue(material, text) == [enc |-> TRUE, key |-> material, pt |-> text]

\* CryptoService.encrypt / decrypt: keyed by the named secret's current
\* value in the base environment file
getKeyValue(files, filePath, keyName) == files[filePath][keyName]
decrypt(value, material) ==
  IF value.key = material THEN [ok |-> TRUE, pt |-> value.pt]
                          ELSE [ok |-> FALSE, pt |-> ""]
encrypt(plaintext, material) == CipherValue(material, plaintext)
isEncryptedValue(value) == value.enc
IsBlank(text) == text \in {"", " "}   \* text.trim() === ''


\* ------------------------------------ KeyMetadataRepositoryValidator
VALID_STATUSES == {"healthy", "warning", "critical", "expired"}
VALID_EVENT_TYPES ==
  {"created", "rotated", "accessed", "warning_issued", "expired", "health_check"}
VALID_SEVERITIES == {"info", "warning", "error", "critical"}
VALID_ROTATION_REASONS ==
  {"scheduled", "manual", "expired", "security_breach", "compromised"}
VALID_CHECK_SOURCES == {"startup", "scheduled", "manual", "api"}

isValidDate(value) == value >= 0
isPositiveNumber(value) == value >= 0
isNonEmptyString(value) == value # ""

validateBasicStructure(metadata) ==
  /\ isNonEmptyString(metadata.keyName)
  /\ isValidDate(metadata.createdAt)
  /\ isPositiveNumber(metadata.rotationCount)
  /\ (metadata.lastRotatedAt # Undef => isValidDate(metadata.lastRotatedAt))

ValidatorValidateRotationConfig(config) ==
  /\ isPositiveNumber(config.maxAgeInDays) /\ config.maxAgeInDays # 0
  /\ isPositiveNumber(config.warningThresholdInDays)
  /\ config.warningThresholdInDays # 0
  /\ ~(config.warningThresholdInDays >= config.maxAgeInDays)

validateAuditEvent(event) ==
  /\ isValidDate(event.timestamp)
  /\ event.eventType \in VALID_EVENT_TYPES
  /\ event.severity \in VALID_SEVERITIES
  /\ isNonEmptyString(event.source)

validateRotationEvent(event) ==
  /\ isValidDate(event.timestamp)
  /\ event.reason \in VALID_ROTATION_REASONS
  /\ event.success \in BOOLEAN

validateHealthCheckEvent(event) ==
  /\ isValidDate(event.timestamp)
  /\ isPositiveNumber(event.ageInDays)
  /\ event.daysUntilExpiry \notin {NotNumber, NaN}
  /\ event.status \in VALID_STATUSES
  /\ event.checkSource \in VALID_CHECK_SOURCES

validateAuditTrail(auditTrail) ==
  /\ (auditTrail.lastHealthCheck # Undef => isValidDate(auditTrail.lastHealthCheck))
  /\ \A i \in 1..Len(auditTrail.auditEvents) :
       validateAuditEvent(auditTrail.auditEvents[i])
  /\ \A i \in 1..Len(auditTrail.rotationHistory) :
       validateRotationEvent(auditTrail.rotationHistory[i])
  /\ \A i \in 1..Len(auditTrail.healthCheckHistory) :
       validateHealthCheckEvent(auditTrail.healthCheckHistory[i])

validateUsageTracking(usage) ==
  usage.lastAccessedAt # Undef => isValidDate(usage.lastAccessedAt)

validateStatusTracking(status) ==
  /\ status.currentStatus \in VALID_STATUSES
  /\ isValidDate(status.lastStatusChange)

validateMetadata(metadata) ==
  /\ validateBasicStructure(metadata)
  /\ "rotationConfig" \in DOMAIN metadata   \* !config: no such property
  /\ ValidatorValidateRotationConfig(metadata.rotationConfig)
  /\ validateAuditTrail(metadata.auditTrail)
  /\ validateUsageTracking(metadata.usageTracking)
  /\ validateStatusTracking(metadata.statusTracking)

validateMetadataRecord(metadata) ==
  \A keyName \in DOMAIN metadata : validateMetadata(metadata[keyName])

\* ---------------------------------------------- KeyMetadataRepository
\* readKeyMetadata never throws: a file that fails validation reads as {}.
readKeyMetadata(file) ==
  IF validateMetadataRecord(file) THEN file ELSE EmptyMap

\* writeKeyMetadata: validation, then the whole file is rewritten.
\* ok = FALSE stands for the thrown 'Metadata validation failed' error.
writeKeyMetadata(file, metadata) ==
  IF validateMetadataRecord(metadata)
    THEN [ok |-> TRUE, file |-> metadata]
    ELSE [ok |-> FALSE, file |-> file]

updateSingleKeyMetadata(file, keyName, updatedMetadata) ==
  writeKeyMetadata(file, Put(readKeyMetadata(file), keyName, updatedMetadata))


\* ------------------------------------------------- KeyLifecycleManager
createEmptyAuditTrail ==
  [auditEvents |-> <<>>, rotationHistory |-> <<>>, healthCheckHistory |-> <<>>,
   lastHealthCheck |-> Undef]

\* validateRotationConfig: TRUE when it returns the config, FALSE when it
\* throws the configuration error
validateRotationConfig(config) ==
  /\ ~(~isNumber(config.maxAgeInDays) \/ LessEq(config.maxAgeInDays, 0))
  /\ ~(~isNumber(config.warningThresholdInDays)
         \/ Less(config.warningThresholdInDays, 0))
  /\ ~GreaterEq(config.warningThresholdInDays, config.maxAgeInDays)

\* customMaxAge || this.keyRotationConfig.maxAgeInDays
createRotationConfig(customMaxAge) ==
  [maxAgeInDays |-> IF customMaxAge # 0 THEN customMaxAge
                    ELSE keyRotationConfig.maxAgeInDays,
   warningThresholdInDays |-> keyRotationConfig.warningThresholdInDays]

calculateRotationCount(keyExists, shouldRotateKey, existingRotationCount) ==
  IF keyExists /\ shouldRotateKey
    THEN (IF existingRotationCount = Undef THEN 0 ELSE existingRotationCount) + 1
    ELSE 0

createKeyMetadata(keyName, rotationConfig, keyExists, shouldRotateKey, environmentsUsedIn, dependentVariables, existingRotationCount) ==
  [keyName |-> keyName,
   createdAt |-> now,
   rotationCount |->
     calculateRotationCount(keyExists, shouldRotateKey, existingRotationCount),
   lastRotatedAt |-> IF shouldRotateKey THEN now ELSE Undef,
   rotationConfig |-> rotationConfig,
   auditTrail |-> createEmptyAuditTrail,
   usageTracking |-> [environmentsUsedIn |-> environmentsUsedIn,
                      dependentVariables |-> dependentVariables,
                      lastAccessedAt |-> Undef],
   statusTracking |-> [currentStatus |-> "healthy", lastStatusChange |-> now]]

\* Math.ceil(Math.abs(now - referenceDate) / msPerDay)
calculateKeyAge(metadata) ==
  LET referenceDate == IF metadata.lastRotatedAt # Undef
                         THEN metadata.lastRotatedAt ELSE metadata.createdAt
      diffTime == IF now >= referenceDate THEN now - referenceDate
                                          ELSE referenceDate - now
  IN (diffTime + TicksPerDay - 1) \div TicksPerDay

\* Math.floor((now - lastRotatedAt) / msPerDay)
calculateDaysSinceLastRotation(metadata) ==
  LET lastRotatedAt == IF metadata.lastRotatedAt # Undef
                         THEN metadata.lastRotatedAt ELSE metadata.createdAt
  IN (now - lastRotatedAt) \div TicksPerDay

calculateDaysUntilExpiry(metadata) ==
  LET d == metadata.rotationConfig.maxAgeInDays - calculateKeyAge(metadata)
  IN IF d > 0 THEN d ELSE 0

getValidatedRotationConfig(metadata) ==
  IF validateRotationConfig(metadata.rotationConfig)
    THEN metadata.rotationConfig ELSE keyRotationConfig

calculateRotationStatus(ageInDays, config) ==
  LET maxAge == config.maxAgeInDays
      daysUntilRotation == maxAge - ageInDays
      needsRotation == ageInDays >= maxAge
      needsWarning ==
        daysUntilRotation <= keyRotationConfig.warningThresholdInDays
        /\ ~needsRotation
  IN [needsRotation |-> needsRotation,
      needsWarning |-> needsWarning,
      ageInDays |-> ageInDays,
      daysUntilRotation |-> IF daysUntilRotation > 0 THEN daysUntilRotation ELSE 0]

\* variant of createDefaultRotationStatus that reports no days left
createDefaultRotationStatus_NoDaysLeft ==
  [needsRotation |-> FALSE, needsWarning |-> FALSE, ageInDays |-> 0,
   daysUntilRotation |-> 0]

createDefaultRotationStatus ==
  [needsRotation |-> FALSE, needsWarning |-> FALSE, ageInDays |-> 0,
   daysUntilRotation |-> keyRotationConfig.maxAgeInDays]

determineHealthStatusAndRecommendations(status) ==
  IF status.needsRotation THEN "critical"
  ELSE IF status.needsWarning THEN "warning" ELSE "healthy"

\* variant of limitAuditEvents that keeps the first 100 entries
limitAuditEvents_KeepOldest(events) ==
  IF Len(events) > MAX_AUDIT_EVENTS
    THEN SubSeq(events, 1, MAX_AUDIT_EVENTS) ELSE events

\* auditEvents.slice(-100) once the list is longer than 100
limitAuditEvents(events) ==
  IF Len(events) > MAX_AUDIT_EVENTS THEN Last(events, MAX_AUDIT_EVENTS) ELSE events

\* recordAuditEvent: read, push, keep the last 100, write; every error
\* is caught, so a failed write leaves the file as it was
recordAuditEvent(file, keyName, eventType, severity, source, details) ==
  LET metadata == readKeyMetadata(file) IN
  IF keyName \notin DOMAIN metadata THEN file
  ELSE
    LET pushed == Append(metadata[keyName].auditTrail.auditEvents,
                         [timestamp |-> now, eventType |-> eventType,
                          severity |-> severity, source |-> source,
                          details |-> details])
        kept == limitAuditEvents(pushed)
    IN writeKeyMetadata(file,
         [metadata EXCEPT ![keyName].auditTrail.auditEvents = kept]).file

updateStatusIfChanged(metadata, newStatus) ==
  IF metadata.statusTracking.currentStatus # newStatus
    THEN [metadata EXCEPT !.statusTracking =
            [currentStatus |-> newStatus, lastStatusChange |-> now]]
    ELSE metadata

\* variant of trimHealthCheckHistoryForMonitoring that keeps the first 50
trimHealthCheckHistoryForMonitoring_KeepOldest(metadata) ==
  IF Len(metadata.auditTrail.healthCheckHistory) > MAX_HEALTH_CHECK_ENTRIES
    THEN [metadata EXCEPT !.auditTrail.healthCheckHistory =
            SubSeq(metadata.auditTrail.healthCheckHistory, 1, MAX_HEALTH_CHECK_ENTRIES)]
    ELSE metadata

trimHealthCheckHistoryForMonitoring(metadata) ==
  IF Len(metadata.auditTrail.healthCheckHistory) > MAX_HEALTH_CHECK_ENTRIES
    THEN [metadata EXCEPT !.auditTrail.healthCheckHistory =
            Last(metadata.auditTrail.healthCheckHistory, MAX_HEALTH_CHECK_ENTRIES)]
    ELSE metadata

addHealthCheckEntryForMonitoring(metadata, ageInDays, daysUntilExpiry, status, checkSource) ==
  [metadata EXCEPT
     !.auditTrail.healthCheckHistory =
        Append(@, [timestamp |-> now, ageInDays |-> ageInDays,
                   daysUntilExpiry |-> daysUntilExpiry, status |-> status,
                   checkSource |-> checkSource]),
     !.auditTrail.lastHealthCheck = now]

recordHealthCheck(file, keyName, ageInDays, daysUntilExpiry, status, checkSource) ==
  LET metadata == readKeyMetadata(file) IN
  IF keyName \notin DOMAIN metadata THEN file
  ELSE
    LET m1 == addHealthCheckEntryForMonitoring(metadata[keyName], ageInDays,
                                               daysUntilExpiry, status, checkSource)
        m2 == updateStatusIfChanged(m1, status)
        m3 == trimHealthCheckHistoryForMonitoring(m2)
    IN writeKeyMetadata(file, [metadata EXCEPT ![keyName] = m3]).file

\* variant of recordRotationAuditEvents: a healthy key gets an event too
recordRotationAuditEvents_Always(file, keyName, status) ==
  IF status.needsRotation
    THEN recordAuditEvent(file, keyName, "expired", "critical",
                          "checkKeyRotationStatus", "key has expired")
    ELSE recordAuditEvent(file, keyName, "warning_issued", "warning",
                          "checkKeyRotationStatus", "key will expire")

recordRotationAuditEvents(file, keyName, status) ==
  IF status.needsRotation
    THEN recordAuditEvent(file, keyName, "expired", "critical",
                          "checkKeyRotationStatus", "key has expired")
  ELSE IF status.needsWarning
    THEN recordAuditEvent(file, keyName, "warning_issued", "warning",
                          "checkKeyRotationStatus", "key will expire")
  ELSE file

processHealthCheckAndAudit(file, keyName, status, checkSource) ==
  recordRotationAuditEvents(
    recordHealthCheck(file, keyName, status.ageInDays, status.daysUntilRotation,
                      determineHealthStatusAndRecommendations(status), checkSource),
    keyName, status)

\* checkKeyRotationStatus: the status returned and the file it leaves
checkKeyRotationStatus(file, keyName, checkSource) ==
  LET metadata == readKeyMetadata(file) IN
  IF keyName \notin DOMAIN metadata
    THEN [status |-> createDefaultRotationStatus, file |-> file]
    ELSE
      LET status == calculateRotationStatus(calculateKeyAge(metadata[keyName]),
                      getValidatedRotationConfig(metadata[keyName]))
      IN [status |-> status,
          file |-> processHealthCheckAndAudit(file, keyName, status, checkSource)]

NoMetadata == [keyName |-> ""]

\* getComprehensiveKeyInfo / getKeyInfo: the record handed back is the one
\* read before checkKeyRotationStatus wrote its health check
getComprehensiveKeyInfo(file, keyName) ==
  LET metadata == readKeyMetadata(file) IN
  IF keyName \notin DOMAIN metadata
    THEN [exists |-> FALSE, metadata |-> NoMetadata, file |-> file]
    ELSE [exists |-> TRUE, metadata |-> metadata[keyName],
          file |-> checkKeyRotationStatus(file, keyName, "api").file]

getKeyInfo(file, keyName) == getComprehensiveKeyInfo(file, keyName)

\* CryptoOrchestrator.getKeyInformation(keyName, includeAudit = true): the
\* summary it builds for the one key from the rotation status that
\* getComprehensiveKeyInfo returns (an unknown key has no rotation status:
\* `rotationStatus?.needsRotation` is undefined)
getKeyInformation(file, keyName) ==
  LET comprehensiveInfo == getComprehensiveKeyInfo(file, keyName)
      needsRotation == comprehensiveInfo.exists
                         /\ checkKeyRotationStatus(file, keyName, "api").status.needsRotation
      needsWarning == comprehensiveInfo.exists
                        /\ checkKeyRotationStatus(file, keyName, "api").status.needsWarning
      isExpired == needsRotation
  IN [exists |-> comprehensiveInfo.exists,
      auditSummary |-> [totalKeys |-> 1,
                        healthyKeys |-> IF needsRotation THEN 0 ELSE 1,
                        warningKeys |-> IF needsWarning THEN 1 ELSE 0,
                        criticalKeys |-> IF needsRotation THEN 1 ELSE 0,
                        expiredKeys |-> IF isExpired THEN 1 ELSE 0],
      file |-> comprehensiveInfo.file]

\* ---- updateAuditTrail and its helpers
RECURSIVE InsertByTimestamp(_, _)
InsertByTimestamp(sorted, e) ==
  IF sorted = <<>> THEN <<e>>
  ELSE IF sorted[Len(sorted)].timestamp <= e.timestamp THEN Append(sorted, e)
  ELSE Append(InsertByTimestamp(SubSeq(sorted, 1, Len(sorted) - 1), e),
              sorted[Len(sorted)])

\* Array.prototype.sort by timestamp (stable)
RECURSIVE SortByTimestamp(_)
SortByTimestamp(history) ==
  IF history = <<>> THEN <<>>
  ELSE InsertByTimestamp(SortByTimestamp(SubSeq(history, 1, Len(history) - 1)),
                         history[Len(history)])

\* set union that keeps the order of insertion (Array.from(new Set(...)))
RECURSIVE AddAll(_, _)
AddAll(existing, added) ==
  IF added = <<>> THEN existing
  ELSE AddAll(IF Includes(existing, Head(added)) THEN existing
              ELSE Append(existing, Head(added)), Tail(added))

\* variant of createAuditEntry: every entry is written as a success
createAuditEntry_AlwaysSuccess(startTime, reason, affectedFiles, processedVariableNames, success, shouldRotateKey, errorDetails) ==
  [timestamp |-> startTime,
   reason |-> reason,
   affectedEnvironments |-> IF success THEN affectedFiles ELSE <<>>,
   affectedVariables |-> processedVariableNames,
   success |-> TRUE,
   overrideMode |-> shouldRotateKey,
   errorDetails |-> errorDetails]

createAuditEntry(startTime, reason, affectedFiles, processedVariableNames, success, shouldRotateKey, errorDetails) ==
  [timestamp |-> startTime,
   reason |-> reason,
   affectedEnvironments |-> IF success THEN affectedFiles ELSE <<>>,
   affectedVariables |-> processedVariableNames,
   success |-> success,
   overrideMode |-> shouldRotateKey,
   errorDetails |-> errorDetails]

updateUsageTrackingForRotation(keyMetadata, affectedFiles, processedVariableNames) ==
  [keyMetadata EXCEPT !.usageTracking =
     [environmentsUsedIn |-> AddAll(@.environmentsUsedIn, affectedFiles),
      dependentVariables |-> AddAll(@.dependentVariables, processedVariableNames),
      lastAccessedAt |-> now]]

\* index of the first entry with no environments and no variables, 0 if none
findInitialAuditEntry(rotationHistory) ==
  LET hits == {i \in 1..Len(rotationHistory) :
                 /\ rotationHistory[i].affectedEnvironments = <<>>
                 /\ rotationHistory[i].affectedVariables = <<>>}
  IN IF hits = {} THEN 0 ELSE CHOOSE i \in hits : \A j \in hits : i <= j

updateInitialAuditEntry(keyMetadata, affectedFiles, processedVariableNames) ==
  IF processedVariableNames = <<>> THEN keyMetadata
  ELSE
    LET sorted == SortByTimestamp(keyMetadata.auditTrail.rotationHistory)
        i == findInitialAuditEntry(sorted)
    IN [keyMetadata EXCEPT !.auditTrail.rotationHistory =
          IF i = 0 THEN sorted
          ELSE [sorted EXCEPT ![i].affectedEnvironments = affectedFiles,
                              ![i].affectedVariables = processedVariableNames]]

updateSuccessfulRotationMetadata(keyMetadata, affectedFiles, processedVariableNames) ==
  updateInitialAuditEntry(
    updateUsageTrackingForRotation(keyMetadata, affectedFiles, processedVariableNames),
    affectedFiles, processedVariableNames)

\* updateAuditTrail: every error is caught inside, the file is what remains
updateAuditTrail(file, keyName, reason, startTime, affectedFiles, reEncryptedCount, shouldRotateKey, success, errorDetails, processedVariableNames) ==
  LET metadata == readKeyMetadata(file) IN
  IF keyName \notin DOMAIN metadata THEN file
  ELSE
    LET auditEntry == createAuditEntry(startTime, reason, affectedFiles,
                        processedVariableNames, success, shouldRotateKey, errorDetails)
        pushed == [metadata[keyName] EXCEPT
                     !.auditTrail.rotationHistory = Append(@, auditEntry)]
        updated == IF success /\ Len(affectedFiles) > 0
                     THEN updateSuccessfulRotationMetadata(pushed, affectedFiles,
                                                           processedVariableNames)
                     ELSE pushed
        written == updateSingleKeyMetadata(file, keyName, updated)
    IN IF ~written.ok THEN file
       ELSE IF success
         THEN recordAuditEvent(written.file, keyName, "rotated", "info",
                               "rotateKeyWithAudit", "rotated successfully")
         ELSE written.file

\* variant of updateUsageTracking: arrays are appended to, without the Sets
updateUsageTracking_NoSet(envFilePaths, variableNames, existingUsageTracking) ==
  [environmentsUsedIn |-> existingUsageTracking.environmentsUsedIn \o envFilePaths,
   dependentVariables |-> existingUsageTracking.dependentVariables \o variableNames,
   lastAccessedAt |-> now]

\* updateUsageTracking(decryptedDataMap, existingUsageTracking)
updateUsageTracking(envFilePaths, variableNames, existingUsageTracking) ==
  [environmentsUsedIn |-> AddAll(existingUsageTracking.environmentsUsedIn, envFilePaths),
   dependentVariables |-> AddAll(existingUsageTracking.dependentVariables, variableNames),
   lastAccessedAt |-> now]

recordKeyAccess(file, keyName, accessSource) ==
  LET metadata == readKeyMetadata(file) IN
  IF keyName \notin DOMAIN metadata THEN file
  ELSE
    LET written == writeKeyMetadata(file,
                     [metadata EXCEPT ![keyName].usageTracking.lastAccessedAt = now])
    IN IF ~written.ok THEN file
       ELSE recordAuditEvent(written.file, keyName, "accessed", "info",
                             accessSource, "key accessed")

\* ---- addHealthCheckEntry: changes only the record object it is handed
determineHealthStatus(keyMetadata, success, reason) ==
  LET keyAge == calculateKeyAge(keyMetadata)
      daysSinceLastRotation == calculateDaysSinceLastRotation(keyMetadata)
      maxAge == keyMetadata.rotationConfig.maxAgeInDays
      warningThreshold == keyMetadata.rotationConfig.warningThresholdInDays
  IN IF ~success THEN "critical"
     ELSE IF reason = "expired" THEN "healthy"
     ELSE IF keyAge >= maxAge THEN "expired"
     ELSE IF keyAge >= maxAge - warningThreshold THEN "warning"
     ELSE IF daysSinceLastRotation >= maxAge - warningThreshold THEN "warning"
     ELSE "healthy"

determineCheckSource(reason) ==
  IF reason = "manual" THEN "manual"
  ELSE IF reason = "scheduled" THEN "scheduled" ELSE "api"

determineSeverityFromHealthStatus(healthStatus) ==
  IF healthStatus = "critical" THEN "critical"
  ELSE IF healthStatus = "warning" THEN "warning" ELSE "info"

addHealthCheckEntry(keyMetadata, success, reason) ==
  LET status == determineHealthStatus(keyMetadata, success, reason)
      entry == [timestamp |-> now,
                ageInDays |-> calculateKeyAge(keyMetadata),
                daysUntilExpiry |-> calculateDaysUntilExpiry(keyMetadata),
                status |-> status,
                checkSource |-> determineCheckSource(reason)]
      event == [timestamp |-> now, eventType |-> "health_check",
                severity |-> determineSeverityFromHealthStatus(status),
                source |-> "health-check-service", details |-> "health check"]
  IN [keyMetadata EXCEPT
        !.auditTrail.healthCheckHistory =
           Last(Append(@, entry), MAX_ROTATION_HEALTH_ENTRIES),
        !.statusTracking = [currentStatus |-> status, lastStatusChange |-> now],
        !.auditTrail.auditEvents = Append(@, event)]

\* ---- storeBaseEnvironmentKey
checkIfKeyExists(files, filePath, keyName) == files[filePath][keyName] # NoKey

updateFileContent(files, filePath, keyName, keyValue) ==
  [files EXCEPT ![filePath][keyName] = keyValue]

\* updateKeyMetadata: ok = FALSE when validateRotationConfig or the write throws
updateKeyMetadata(file, keyName, customMaxAge, keyExists, shouldRotateKey) ==
  LET metadata == readKeyMetadata(file)
      rotationConfig == createRotationConfig(customMaxAge)
  IN IF ~validateRotationConfig(rotationConfig) THEN [ok |-> FALSE, file |-> file]
     ELSE writeKeyMetadata(file,
            Put(metadata, keyName,
                createKeyMetadata(keyName, rotationConfig, keyExists, shouldRotateKey,
                  <<>>, <<>>,
                  IF keyName \in DOMAIN metadata
                    THEN metadata[keyName].rotationCount ELSE Undef)))

recordKeyStorageAuditEvent(file, keyName, shouldRotateKey) ==
  recordAuditEvent(file, keyName, IF shouldRotateKey THEN "rotated" ELSE "created",
                   "info", "storeBaseEnvironmentKey", "key stored")

\* variant of storeBaseEnvironmentKey without the early return for a key
\* that is already in the file
storeBaseEnvironmentKey_NoEarlyReturn(files, file, filePath, keyName, keyValue, customMaxAge, shouldRotateKey) ==
  LET keyExists == checkIfKeyExists(files, filePath, keyName)
      stored == updateKeyMetadata(file, keyName, customMaxAge, keyExists,
                                  shouldRotateKey)
      written == updateFileContent(files, filePath, keyName, keyValue)
  IN IF ~stored.ok
       THEN [threw |-> TRUE, secrets |-> written, metaFile |-> file]
       ELSE [threw |-> FALSE, secrets |-> written,
             metaFile |-> recordKeyStorageAuditEvent(stored.file, keyName,
                                                     shouldRotateKey)]

\* storeBaseEnvironmentKey: whether the call throws, and the secret files and
\* the metadata file it leaves.  The secret file is written before the
\* metadata, so a failure of updateKeyMetadata leaves the new key line.
storeBaseEnvironmentKey(files, file, filePath, keyName, keyValue, customMaxAge, shouldRotateKey) ==
  LET keyExists == checkIfKeyExists(files, filePath, keyName)
      stored == updateKeyMetadata(file, keyName, customMaxAge, keyExists,
                                  shouldRotateKey)
      written == updateFileContent(files, filePath, keyName, keyValue)
  IN IF keyExists /\ ~shouldRotateKey
       THEN [threw |-> FALSE, secrets |-> files, metaFile |-> file]
     ELSE IF ~stored.ok
       THEN [threw |-> TRUE, secrets |-> written, metaFile |-> file]
       ELSE [threw |-> FALSE, secrets |-> written,
             metaFile |-> recordKeyStorageAuditEvent(stored.file, keyName,
                                                     shouldRotateKey)]

\* ---- checkAllKeysForRotation, the only part of performComprehensiveAudit
\* that writes: a scheduled check of every key on record, in file order
RECURSIVE CheckKeysInOrder(_, _)
CheckKeysInOrder(file, keys) ==
  IF keys = <<>> THEN file
  ELSE CheckKeysInOrder(
         IF Head(keys) \in DOMAIN file
           THEN checkKeyRotationStatus(file, Head(keys), "scheduled").file
           ELSE file,
         Tail(keys))

checkAllKeysForRotation(file) ==
  LET metadata == readKeyMetadata(file) IN
  CheckKeysInOrder(file, SelectSeq(KeyOrder, LAMBDA k : k \in DOMAIN metadata))

\* performRotationChecks: the status of every key, each computed by the
\* scheduled check made in its turn
RECURSIVE performRotationChecks(_, _)
performRotationChecks(file, keys) ==
  IF keys = <<>> THEN <<>>
  ELSE LET checked == checkKeyRotationStatus(file, Head(keys), "scheduled")
       IN <<[keyName |-> Head(keys), status |-> checked.status]>>
            \o performRotationChecks(checked.file, Tail(keys))

KeyNameOf(check) == check.keyName
NamesOf(checks) == [i \in 1..Len(checks) |-> KeyNameOf(checks[i])]

categorizeKeys(rotationChecks) ==
  [keysNeedingRotation |->
     NamesOf(SelectSeq(rotationChecks, LAMBDA c : c.status.needsRotation)),
   keysNeedingWarning |->
     NamesOf(SelectSeq(rotationChecks,
               LAMBDA c : ~c.status.needsRotation /\ c.status.needsWarning))]

isKeyExpired(keyName, metadata) ==
  calculateKeyAge(metadata[keyName]) >= metadata[keyName].rotationConfig.maxAgeInDays

identifyExpiredKeys(allKeys, metadata) ==
  SelectSeq(allKeys, LAMBDA k : isKeyExpired(k, metadata))

\* variant of determineSystemHealth in which a warning outranks a rotation
determineSystemHealth_WarningFirst(criticalKeys, warningKeys) ==
  IF warningKeys > 0 THEN "warning"
  ELSE IF criticalKeys > 0 THEN "critical" ELSE "healthy"

determineSystemHealth(criticalKeys, warningKeys) ==
  IF criticalKeys > 0 THEN "critical"
  ELSE IF warningKeys > 0 THEN "warning" ELSE "healthy"

RECURSIVE SumOfAges(_, _)
SumOfAges(allKeys, metadata) ==
  IF allKeys = <<>> THEN 0
  ELSE calculateKeyAge(metadata[Head(allKeys)]) + SumOfAges(Tail(allKeys), metadata)

\* averageKeyAge > this.keyRotationConfig.maxAgeInDays * 0.8, the average
\* being 0 when there is no key
shouldReduceRotationInterval(allKeys, metadata) ==
  IF allKeys = <<>> THEN 0 > 8 * keyRotationConfig.maxAgeInDays
  ELSE 10 * SumOfAges(allKeys, metadata)
         > 8 * keyRotationConfig.maxAgeInDays * Len(allKeys)

generateAuditRecommendations(criticalKeys, warningKeys, allKeys, metadata) ==
  (IF criticalKeys > 0 THEN <<"require immediate rotation">> ELSE <<>>)
  \o (IF warningKeys > 0 THEN <<"should be rotated soon">> ELSE <<>>)
  \o (IF shouldReduceRotationInterval(allKeys, metadata)
        THEN <<"reduce rotation intervals">> ELSE <<>>)

createAuditSummary(totalKeys, criticalKeys, warningKeys, expiredKeysCount, systemHealth) ==
  [totalKeys |-> totalKeys,
   healthyKeys |-> totalKeys - criticalKeys - warningKeys - expiredKeysCount,
   warningKeys |-> warningKeys,
   criticalKeys |-> criticalKeys,
   expiredKeys |-> expiredKeysCount,
   currentStatus |-> systemHealth]

\* the value of a one-element set: S is {e} for an expression e that is to
\* be computed once
TheOne(S) == CHOOSE x \in S : TRUE

\* the second half of performComprehensiveAudit, after checkAllKeysForRotation
\* has returned `checks` and left the file `after`
summarizeAudit(checks, after) ==
  LET metadata == readKeyMetadata(after)
      allKeys == SelectSeq(KeyOrder, LAMBDA k : k \in DOMAIN metadata)
      expiredKeys == identifyExpiredKeys(allKeys, metadata)
      criticalKeys == Len(checks.keysNeedingRotation)
      warningKeys == Len(checks.keysNeedingWarning)
      systemHealth == determineSystemHealth(criticalKeys, warningKeys)
  IN [systemHealth |-> systemHealth,
      keysNeedingRotation |-> checks.keysNeedingRotation,
      keysNeedingWarning |-> checks.keysNeedingWarning,
      expiredKeys |-> expiredKeys,
      auditSummary |-> createAuditSummary(Len(allKeys), criticalKeys, warningKeys,
                                          Len(expiredKeys), systemHealth),
      recommendations |-> generateAuditRecommendations(criticalKeys, warningKeys,
                                                       allKeys, metadata),
      file |-> after]

\* performComprehensiveAudit: what it returns, and the file it leaves
performComprehensiveAudit(file) ==
  LET keyNames == SelectSeq(KeyOrder, LAMBDA k : k \in DOMAIN readKeyMetadata(file))
  IN TheOne({summarizeAudit(checks, after) :
               checks \in {categorizeKeys(performRotationChecks(file, keyNames))},
               after \in {checkAllKeysForRotation(file)}})

\* CryptoOrchestrator.performSystemAudit hands the result on
performSystemAudit(file) == performComprehensiveAudit(file)

performStartupSecurityCheck(file) ==
  TheOne({[passed |-> auditResult.systemHealth # "critical",
           systemHealth |-> auditResult.systemHealth,
           criticalKeys |-> auditResult.keysNeedingRotation,
           warningKeys |-> auditResult.keysNeedingWarning,
           file |-> auditResult.file] :
            auditResult \in {performSystemAudit(file)}})

\* --------------------------------------------------- KeyLifecycleService
\* processVariableForDecryption: defined = FALSE is the undefined result
\* (value not processed, or its decryption error caught and logged)
\* variant of processVariableForDecryption that hands on the value of a
\* variable whose decryption failed
processVariableForDecryption_KeepFailed(value, material, shouldRotateKey) ==
  LET isEncrypted == isEncryptedValue(value)
      shouldProcess == isEncrypted \/ (shouldRotateKey /\ value.pt # "")
  IN IF ~shouldProcess THEN [defined |-> FALSE, pt |-> ""]
     ELSE [defined |-> TRUE, pt |-> value.pt]

processVariableForDecryption(value, material, shouldRotateKey) ==
  LET isEncrypted == isEncryptedValue(value)
      shouldProcess == isEncrypted \/ (shouldRotateKey /\ value.pt # "")
  IN IF ~shouldProcess THEN [defined |-> FALSE, pt |-> ""]
     ELSE IF isEncrypted
       THEN [defined |-> decrypt(value, material).ok,
             pt |-> decrypt(value, material).pt]
       ELSE [defined |-> TRUE, pt |-> value.pt]

\* variant of filterValidDecryptedVariables that keeps every string
filterValidDecryptedVariables_KeepBlank(decryptedVariables) == decryptedVariables

\* filterValidDecryptedVariables: keeps the strings that are not blank
filterValidDecryptedVariables(decryptedVariables) ==
  [v \in {x \in DOMAIN decryptedVariables : ~IsBlank(decryptedVariables[x])}
     |-> decryptedVariables[v]]

\* Object.keys / Object.entries order: the order of the file's lines
KeysOf(variables) == SelectSeq(VarOrder, LAMBDA v : v \in DOMAIN variables)

createValidatedRotationConfig(customMaxAge) == createRotationConfig(customMaxAge)

\* the record updateKeyMetadataAfterRotation builds from the record read in
\* step 1 (existingMetadata)
updatedMetadataAfterRotation(keyName, existingMetadata, decryptedData, validatedConfig) ==
  [keyName |-> keyName,
   createdAt |-> existingMetadata.createdAt,
   lastRotatedAt |-> now,
   rotationCount |-> existingMetadata.rotationCount + 1,
   rotationConfig |-> validatedConfig,
   auditTrail |-> existingMetadata.auditTrail,
   usageTracking |->
     updateUsageTracking(
       IF DOMAIN decryptedData # {} THEN <<EnvironmentFile>> ELSE <<>>,
       KeysOf(decryptedData), existingMetadata.usageTracking),
   statusTracking |-> [currentStatus |-> "healthy", lastStatusChange |-> now]]

\* ------------------------------------------------------------- states
NoRotation ==
  [keyName |-> "", newKeyValue |-> NoKey, reason |-> "", customMaxAge |-> 0,
   shouldRotateKey |-> FALSE, startTime |-> Undef,
   existingMetadata |-> NoMetadata, oldKeyValue |-> NoKey,
   decryptedVariables |-> EmptyMap, decryptedData |-> EmptyMap,
   processedVariableNames |-> <<>>, idx |-> 0, lines |-> EmptyMap,
   rotationResult |-> [success |-> FALSE, reEncryptedCount |-> 0],
   updatedMetadata |-> NoMetadata, error |-> "none", outcome |-> "none",
   \* history of the call: the record's count and the environment file when
   \* the call began, and the file and cipher operations it has made
   countBefore |-> Undef, envBefore |-> EmptyMap, trace |-> <<>>,
   \* the persisted rotationHistory of the key when the call began
   historyBefore |-> <<>>,
   \* the finally block: whether the cleanup ran, the service's cache of
   \* decrypted values, and how the system audit went (none, done, failed)
   cleanedUp |-> FALSE, decryptedDataCache |-> EmptyMap, systemAudit |-> "none"]

EnvFileA == [v \in VarNames |-> IF v = "V1" THEN CipherValue("kA", "s")
                                            ELSE PlainValue("p")]
EnvFileB == [v \in VarNames |-> IF v = "V1" THEN CipherValue("kA", " ")
                                            ELSE CipherValue("kB", "s")]
EnvFileC == [v \in VarNames |-> IF v = "V1" THEN CipherValue("kA", "s")
                                            ELSE CipherValue("kB", "s")]
InitialEnvFiles == {EnvFileA, EnvFileB, EnvFileC}

Init ==
  /\ keyRotationConfig \in ProcessConfigs
  /\ now = 0
  /\ metaFile = EmptyMap
  /\ secrets = [f \in SecretFiles |-> [k \in KeyNames |-> NoKey]]
  /\ env \in InitialEnvFiles
  /\ pc = "idle"
  /\ rot = NoRotation
  /\ ops = 0

CanCall == pc = "idle" /\ ops < MaxOps

\* ---------------------------------------------------- manager calls
AdvanceTime ==
  /\ pc = "idle" /\ now < MaxNow
  /\ now' = now + 1
  /\ UNCHANGED <<keyRotationConfig, metaFile, secrets, env, pc, rot, ops>>

StoreBaseEnvironmentKey ==
  \E filePath \in SecretFiles, keyName \in KeyNames, keyValue \in StoreKeyValues,
     customMaxAge \in CustomMaxAges, shouldRotateKey \in BOOLEAN :
    \E result \in {storeBaseEnvironmentKey(secrets, metaFile, filePath, keyName,
                                           keyValue, customMaxAge, shouldRotateKey)} :
       /\ CanCall
       /\ ops' = ops + 1
       /\ secrets' = result.secrets
       /\ metaFile' = result.metaFile
       /\ UNCHANGED <<keyRotationConfig, now, env, pc, rot>>

CheckKeyRotationStatus ==
  \E keyName \in KeyNames, checkSource \in CheckSources :
    /\ CanCall
    /\ ops' = ops + 1
    /\ metaFile' = checkKeyRotationStatus(metaFile, keyName, checkSource).file
    /\ UNCHANGED <<keyRotationConfig, now, secrets, env, pc, rot>>

RecordAuditEvent ==
  \E keyName \in KeyNames :
    /\ CanCall
    /\ ops' = ops + 1
    /\ metaFile' = recordAuditEvent(metaFile, keyName, "accessed", "info",
                                    "caller", "external event")
    /\ UNCHANGED <<keyRotationConfig, now, secrets, env, pc, rot>>

RecordKeyAccess ==
  \E keyName \in KeyNames :
    /\ CanCall
    /\ ops' = ops + 1
    /\ metaFile' = recordKeyAccess(metaFile, keyName, "caller")
    /\ UNCHANGED <<keyRotationConfig, now, secrets, env, pc, rot>>

UpdateAuditTrail ==
  \E keyName \in KeyNames, success \in BOOLEAN :
    /\ CanCall
    /\ ops' = ops + 1
    /\ metaFile' = updateAuditTrail(metaFile, keyName, "manual", now,
                     <<EnvironmentFile>>, 0, FALSE, success,
                     IF success THEN "none" ELSE "reported failure", <<>>)
    /\ UNCHANGED <<keyRotationConfig, now, secrets, env, pc, rot>>

\* ------------------------------------------------ rotateKeyWithAudit
\* The call is followed statement by statement.  rot.error # "none" is the
\* exception in flight; the catch block is HandleRotationFailure, the
\* finally block PerformCleanupAndFinalAudit.
\* variant of needsSystemAudit: the system audit after every rotation
needsSystemAudit_Always(reason) == TRUE

\* the condition of the system-wide audit in the finally block
needsSystemAudit(reason) == reason \in {"expired", "compromised"}

\* variant of outcomeOf: the caught error is not thrown on
outcomeOf_Swallow(error) == "returned"

\* `return rotationResult` at the end of the try block, `throw error` at the
\* end of the catch block
outcomeOf(error) == IF error = "none" THEN "returned" ELSE "thrown"

Throw(error) ==
  /\ rot' = [rot EXCEPT !.error = error]
  /\ pc' = "catch"

Logged(event) == Append(rot.trace, event)

RotateKeyWithAudit ==
  \E keyName \in KeyNames, newKeyValue \in NewKeyValues, reason \in Reasons,
     customMaxAge \in CustomMaxAges, shouldRotateKey \in BOOLEAN :
    /\ CanCall /\ ops <= MaxCallsBeforeRotation
    /\ ops' = ops + 1
    /\ rot' = [NoRotation EXCEPT
                 !.keyName = keyName, !.newKeyValue = newKeyValue,
                 !.reason = reason, !.customMaxAge = customMaxAge,
                 !.shouldRotateKey = shouldRotateKey, !.startTime = now,
                 !.countBefore = IF keyName \in DOMAIN metaFile
                                   THEN metaFile[keyName].rotationCount ELSE Undef,
                 !.envBefore = env,
                 !.historyBefore = IF keyName \in DOMAIN metaFile
                                     THEN metaFile[keyName].auditTrail.rotationHistory
                                     ELSE <<>>]
    /\ pc' = "validateAndGetKeyInfo"
    /\ UNCHANGED <<keyRotationConfig, now, metaFile, secrets, env>>

ValidateAndGetKeyInfo ==
  /\ pc = "validateAndGetKeyInfo"
  /\ LET keyInfo == getComprehensiveKeyInfo(metaFile, rot.keyName) IN
     IF ~keyInfo.exists
       THEN /\ Throw("key not found in metadata")
            /\ UNCHANGED metaFile
       ELSE /\ metaFile' = keyInfo.file
            /\ rot' = [rot EXCEPT !.existingMetadata = keyInfo.metadata]
            /\ pc' = "recordRotationStartAudit"
  /\ UNCHANGED <<keyRotationConfig, now, secrets, env, ops>>

RecordRotationStartAudit ==
  /\ pc = "recordRotationStartAudit"
  /\ metaFile' = recordAuditEvent(metaFile, rot.keyName, "rotated", "info",
                                  "rotateKeyWithAudit", "starting key rotation")
  /\ pc' = "getAndValidateOldKey"
  /\ UNCHANGED <<keyRotationConfig, now, secrets, env, rot, ops>>

GetAndValidateOldKey ==
  /\ pc = "getAndValidateOldKey"
  /\ LET oldKeyValue == getKeyValue(secrets, KeyFilePath, rot.keyName) IN
     IF oldKeyValue = NoKey
       THEN Throw("key not found in secret file")
       ELSE /\ rot' = [rot EXCEPT !.oldKeyValue = oldKeyValue, !.idx = 1,
                                  !.trace = Logged("getKeyValue")]
            /\ pc' = "decryptEnvironmentVariables"
  /\ UNCHANGED <<keyRotationConfig, now, metaFile, secrets, env, ops>>

\* one turn of the loop of processVariablesForDecryption; after the last
\* variable, the filter and the list of processed names
DecryptEnvironmentVariables ==
  /\ pc = "decryptEnvironmentVariables"
  /\ IF getKeyValue(secrets, BASE_ENV_FILE, rot.keyName) = NoKey
       THEN Throw("key not found for decryption")
     ELSE IF rot.idx <= Len(VarOrder)
       THEN LET name == VarOrder[rot.idx]
                processed == processVariableForDecryption(env[name],
                               getKeyValue(secrets, BASE_ENV_FILE, rot.keyName),
                               rot.shouldRotateKey)
            IN /\ rot' = [rot EXCEPT
                    !.idx = @ + 1,
                    !.decryptedVariables =
                       IF processed.defined THEN Put(@, name, processed.pt) ELSE @,
                    !.trace = IF isEncryptedValue(env[name])
                                THEN Logged("decrypt") ELSE @]
               /\ pc' = pc
       ELSE /\ rot' = [rot EXCEPT
                 !.decryptedData = filterValidDecryptedVariables(rot.decryptedVariables),
                 !.processedVariableNames =
                    KeysOf(filterValidDecryptedVariables(rot.decryptedVariables))]
            /\ pc' = "updateKeyValue"
  /\ UNCHANGED <<keyRotationConfig, now, metaFile, secrets, env, ops>>

\* variant of UpdateKeyValue: re-encryption starts without the re-read
UpdateKeyValue_NoVerify ==
  /\ pc = "updateKeyValue"
  /\ secrets' = [secrets EXCEPT ![KeyFilePath][rot.keyName] = rot.newKeyValue]
  /\ rot' = [rot EXCEPT !.trace = Logged("updateKeyValue")]
  /\ pc' = "reEncryptEnvironmentVariables"
  /\ UNCHANGED <<keyRotationConfig, now, metaFile, env, ops>>

\* updateKeyValue of the secret-file manager: the write takes effect, or the
\* file is left as it was (what the re-read of updateAndVerifyKey detects)
UpdateKeyValue ==
  /\ pc = "updateKeyValue"
  /\ \E written \in BOOLEAN :
       secrets' = IF written
                    THEN [secrets EXCEPT ![KeyFilePath][rot.keyName] = rot.newKeyValue]
                    ELSE secrets
  /\ rot' = [rot EXCEPT !.trace = Logged("updateKeyValue")]
  /\ pc' = "verifyKey"
  /\ UNCHANGED <<keyRotationConfig, now, metaFile, env, ops>>

\* variant of VerifyKey: the value read back is not compared
VerifyKey_NoCheck ==
  /\ pc = "verifyKey"
  /\ rot' = [rot EXCEPT !.trace = Logged("verified")]
  /\ pc' = "reEncryptEnvironmentVariables"
  /\ UNCHANGED <<keyRotationConfig, now, metaFile, secrets, env, ops>>

VerifyKey ==
  /\ pc = "verifyKey"
  /\ IF getKeyValue(secrets, KeyFilePath, rot.keyName) # rot.newKeyValue
       THEN Throw("failed to update key - key value unchanged")
       ELSE /\ rot' = [rot EXCEPT !.trace = Logged("verified")]
            /\ pc' = "reEncryptEnvironmentVariables"
  /\ UNCHANGED <<keyRotationConfig, now, metaFile, secrets, env, ops>>

\* reEncryptEnvironmentVariables up to the loop: nothing to re-encrypt
\* returns 0 at once, without loading or saving the environment file
ReEncryptEnvironmentVariables ==
  /\ pc = "reEncryptEnvironmentVariables"
  /\ IF DOMAIN rot.decryptedData = {}
       THEN /\ rot' = [rot EXCEPT
                 !.rotationResult = [success |-> TRUE, reEncryptedCount |-> 0]]
            /\ pc' = "updateKeyMetadataAfterRotation"
     ELSE IF getKeyValue(secrets, BASE_ENV_FILE, rot.keyName) = NoKey
       THEN Throw("key not found for re-encryption")
       ELSE /\ rot' = [rot EXCEPT !.lines = env, !.idx = 1]
            /\ pc' = "reEncryptVariables"
  /\ UNCHANGED <<keyRotationConfig, now, metaFile, secrets, env, ops>>

\* variant of ReEncryptVariables: each re-encrypted line is written to the
\* environment file as soon as it is made
ReEncryptVariables_WriteThrough ==
  /\ pc = "reEncryptVariables"
  /\ IF rot.idx <= Len(rot.processedVariableNames)
       THEN \E encrypted \in BOOLEAN :
              IF encrypted
                THEN LET name == rot.processedVariableNames[rot.idx]
                         line == encrypt(rot.decryptedData[name],
                                   getKeyValue(secrets, BASE_ENV_FILE, rot.keyName))
                     IN /\ rot' = [rot EXCEPT
                             !.lines = [@ EXCEPT ![name] = line],
                             !.idx = @ + 1,
                             !.trace = Logged("encrypt")]
                        /\ env' = [env EXCEPT ![name] = line]
                        /\ pc' = pc
                ELSE Throw("encryption failed") /\ UNCHANGED env
       ELSE pc' = "saveUpdatedEnvironmentFile" /\ rot' = rot /\ UNCHANGED env
  /\ UNCHANGED <<keyRotationConfig, now, metaFile, secrets, ops>>

\* one turn of the loop of reEncryptVariables: CryptoService.encrypt returns
\* a ciphertext or throws
ReEncryptVariables ==
  /\ pc = "reEncryptVariables"
  /\ IF rot.idx <= Len(rot.processedVariableNames)
       THEN \E encrypted \in BOOLEAN :
              IF encrypted
                THEN LET name == rot.processedVariableNames[rot.idx] IN
                     /\ rot' = [rot EXCEPT
                          !.lines = [@ EXCEPT ![name] =
                             encrypt(rot.decryptedData[name],
                                     getKeyValue(secrets, BASE_ENV_FILE, rot.keyName))],
                          !.idx = @ + 1,
                          !.trace = Logged("encrypt")]
                     /\ pc' = pc
                ELSE Throw("encryption failed")
       ELSE pc' = "saveUpdatedEnvironmentFile" /\ rot' = rot
  /\ UNCHANGED <<keyRotationConfig, now, metaFile, secrets, env, ops>>

SaveUpdatedEnvironmentFile ==
  /\ pc = "saveUpdatedEnvironmentFile"
  /\ env' = rot.lines
  /\ rot' = [rot EXCEPT
       !.rotationResult = [success |-> TRUE,
                           reEncryptedCount |-> Cardinality(DOMAIN rot.decryptedData)],
       !.trace = Logged("writeEnvironmentFile")]
  /\ pc' = "updateKeyMetadataAfterRotation"
  /\ UNCHANGED <<keyRotationConfig, now, metaFile, secrets, ops>>

\* createValidatedRotationConfig, then updateKeyMetadataAfterRotation
UpdateKeyMetadataAfterRotation ==
  /\ pc = "updateKeyMetadataAfterRotation"
  /\ LET validatedConfig == createValidatedRotationConfig(rot.customMaxAge)
         updatedMetadata == updatedMetadataAfterRotation(rot.keyName,
                              rot.existingMetadata, rot.decryptedData, validatedConfig)
         written == updateSingleKeyMetadata(metaFile, rot.keyName, updatedMetadata)
     IN IF ~validateRotationConfig(validatedConfig)
          THEN Throw("invalid rotation configuration") /\ UNCHANGED metaFile
        ELSE IF ~written.ok
          THEN Throw("metadata validation failed before writing") /\ UNCHANGED metaFile
        ELSE /\ metaFile' = written.file
             /\ rot' = [rot EXCEPT !.updatedMetadata = updatedMetadata,
                                   !.trace = Logged("updateMetadata")]
             /\ pc' = "recordPostRotationActivities"
  /\ UNCHANGED <<keyRotationConfig, now, secrets, env, ops>>

\* recordKeyAccess writes; addHealthCheckEntry changes the local record only
RecordPostRotationActivities ==
  /\ pc = "recordPostRotationActivities"
  /\ metaFile' = recordKeyAccess(metaFile, rot.keyName, "rotation-service")
  /\ rot' = [rot EXCEPT !.updatedMetadata = addHealthCheckEntry(@, TRUE, rot.reason)]
  /\ pc' = "recordSuccessAudit"
  /\ UNCHANGED <<keyRotationConfig, now, secrets, env, ops>>

RecordSuccessAudit ==
  /\ pc = "recordSuccessAudit"
  /\ metaFile' =
       recordAuditEvent(
         updateAuditTrail(metaFile, rot.keyName, rot.reason, rot.startTime,
           <<EnvironmentFile>>, rot.rotationResult.reEncryptedCount,
           rot.shouldRotateKey, TRUE, "none", rot.processedVariableNames),
         rot.keyName, "rotated", "info", "rotateKeyWithAudit",
         "key rotation completed successfully")
  /\ pc' = "performPostRotationHealthCheck"
  /\ UNCHANGED <<keyRotationConfig, now, secrets, env, rot, ops>>

\* variant of PerformPostRotationHealthCheck: the status check throws
PerformPostRotationHealthCheck_Throws ==
  /\ pc = "performPostRotationHealthCheck"
  /\ Throw("status check failed")
  /\ UNCHANGED <<keyRotationConfig, now, metaFile, secrets, env, ops>>

\* the last statement of the try block; `return rotationResult` follows
PerformPostRotationHealthCheck ==
  /\ pc = "performPostRotationHealthCheck"
  /\ metaFile' = checkKeyRotationStatus(metaFile, rot.keyName, "manual").file
  /\ pc' = "finally"
  /\ UNCHANGED <<keyRotationConfig, now, secrets, env, rot, ops>>

\* the catch block: the failure is recorded, then the error is thrown on
HandleRotationFailure ==
  /\ pc = "catch"
  /\ LET keyInfo == getKeyInfo(metaFile, rot.keyName)
         recorded == recordAuditEvent(keyInfo.file, rot.keyName, "rotated", "critical",
                       "rotateKeyWithAudit", "key rotation failed")
         hasRecord == rot.keyName \in DOMAIN readKeyMetadata(recorded)
     IN /\ metaFile' =
             updateAuditTrail(recorded, rot.keyName, rot.reason, rot.startTime,
               <<EnvironmentFile>>, rot.rotationResult.reEncryptedCount,
               rot.shouldRotateKey, FALSE, rot.error, rot.processedVariableNames)
        /\ rot' = [rot EXCEPT
             !.rotationResult.success = FALSE,
             !.updatedMetadata =
                IF keyInfo.exists
                  THEN addHealthCheckEntry(keyInfo.metadata, FALSE, rot.reason) ELSE @,
             \* getOldKeyHash reads the secret file for a failed rotation
             !.trace = IF hasRecord THEN Logged("getKeyValue") ELSE @]
  /\ pc' = "finally"
  /\ UNCHANGED <<keyRotationConfig, now, secrets, env, ops>>

\* variant of errorAfterAudit: a failed system audit replaces the error
errorAfterAudit_Escapes(error, systemAudit) ==
  IF systemAudit = "failed" THEN "system audit failed" ELSE error

\* the catch around performComprehensiveAudit only logs: the error in
\* flight, or the absence of one, is what it was
errorAfterAudit(error, systemAudit) == error

\* the finally block; afterwards the caller has the result or the error.
\* performComprehensiveAudit completes, or throws before it has written.
PerformCleanupAndFinalAudit ==
  /\ pc = "finally"
  /\ \E auditThrows \in BOOLEAN :
       LET systemAudit == IF ~needsSystemAudit(rot.reason) THEN "none"
                          ELSE IF auditThrows THEN "failed" ELSE "done"
           error == errorAfterAudit(rot.error, systemAudit)
       IN /\ metaFile' = IF systemAudit = "done"
                           THEN performComprehensiveAudit(metaFile).file ELSE metaFile
          /\ rot' = [rot EXCEPT !.cleanedUp = TRUE,
                                !.decryptedDataCache = EmptyMap,
                                !.systemAudit = systemAudit,
                                !.error = error,
                                !.outcome = outcomeOf(error)]
  /\ pc' = "done"
  /\ UNCHANGED <<keyRotationConfig, now, secrets, env, ops>>

\* the caller goes on; the locals of the call are gone
Continue ==
  /\ pc = "done"
  /\ rot' = NoRotation
  /\ pc' = "idle"
  /\ UNCHANGED <<keyRotationConfig, now, metaFile, secrets, env, ops>>

Next ==
  \/ AdvanceTime
  \/ StoreBaseEnvironmentKey
  \/ CheckKeyRotationStatus
  \/ RecordAuditEvent
  \/ RecordKeyAccess
  \/ UpdateAuditTrail
  \/ RotateKeyWithAudit
  \/ ValidateAndGetKeyInfo
  \/ RecordRotationStartAudit
  \/ GetAndValidateOldKey
  \/ DecryptEnvironmentVariables
  \/ UpdateKeyValue
  \/ VerifyKey
  \/ ReEncryptEnvironmentVariables
  \/ ReEncryptVariables
  \/ SaveUpdatedEnvironmentFile
  \/ UpdateKeyMetadataAfterRotation
  \/ RecordPostRotationActivities
  \/ RecordSuccessAudit
  \/ PerformPostRotationHealthCheck
  \/ HandleRotationFailure
  \/ PerformCleanupAndFinalAudit
  \/ Continue

Spec == Init /\ [][Next]_vars

\* =============================================================== claims
RotationReturned == pc = "done" /\ rot.outcome = "returned"
RotationThrew == pc = "done" /\ rot.outcome = "thrown"

PersistedRotationCount(keyName) ==
  IF keyName \in DOMAIN metaFile THEN metaFile[keyName].rotationCount ELSE Undef

\* what a value of the environment file, as it was when the call began, gives
\* the decryption step under the old key: decrypted, or taken as it is
Readable(value) ==
  \/ value.enc /\ value.key = rot.oldKeyValue
  \/ ~value.enc /\ rot.shouldRotateKey /\ value.pt # ""
SuccessfullyDecrypted == {v \in VarNames : Readable(rot.envBefore[v])}
DecryptedNonBlank == {v \in SuccessfullyDecrypted : ~IsBlank(rot.envBefore[v].pt)}

Positions(event) == {i \in 1..Len(rot.trace) : rot.trace[i] = event}
Before(first, second) ==
  \A j \in Positions(second) : \A i \in Positions(first) : i < j
Preceded(event, by) ==
  \A j \in Positions(event) : \E i \in Positions(by) : i < j

DecryptUnderOldKey ==
  /\ Before("decrypt", "updateKeyValue")
  /\ (pc = "decryptEnvironmentVariables" =>
        getKeyValue(secrets, KeyFilePath, rot.keyName) = rot.oldKeyValue)
OverwrittenOnce ==
  /\ Cardinality(Positions("updateKeyValue")) <= 1
  /\ Preceded("verified", "updateKeyValue")
  /\ (pc \in {"verifyKey", "reEncryptEnvironmentVariables", "reEncryptVariables",
              "saveUpdatedEnvironmentFile", "updateKeyMetadataAfterRotation"} =>
        Cardinality(Positions("updateKeyValue")) = 1)
EncryptAfterVerification ==
  /\ Preceded("encrypt", "verified")
  /\ Before("decrypt", "encrypt")

TryBlock ==
  {"validateAndGetKeyInfo", "recordRotationStartAudit", "getAndValidateOldKey",
   "decryptEnvironmentVariables", "updateKeyValue", "verifyKey",
   "reEncryptEnvironmentVariables", "reEncryptVariables",
   "saveUpdatedEnvironmentFile", "updateKeyMetadataAfterRotation",
   "recordPostRotationActivities", "recordSuccessAudit",
   "performPostRotationHealthCheck"}

\* the failure of the call in flight is on record: a critical audit event of
\* rotateKeyWithAudit and a failed rotation entry carrying the error text
FailureRecorded ==
  LET trail == metaFile[rot.keyName].auditTrail IN
  /\ \E i \in 1..Len(trail.auditEvents) :
       /\ trail.auditEvents[i].severity = "critical"
       /\ trail.auditEvents[i].source = "rotateKeyWithAudit"
       /\ trail.auditEvents[i].timestamp = now
  /\ \E i \in 1..Len(trail.rotationHistory) :
       /\ ~trail.rotationHistory[i].success
       /\ trail.rotationHistory[i].errorDetails = rot.error
       /\ trail.rotationHistory[i].timestamp = rot.startTime

\* every step of the try block did what it is there for
EveryStepSucceeded ==
  /\ rot.countBefore # Undef
  /\ rot.oldKeyValue # NoKey
  /\ getKeyValue(secrets, KeyFilePath, rot.keyName) = rot.newKeyValue
  /\ \A v \in DOMAIN rot.decryptedData : decrypt(env[v], rot.newKeyValue).ok
  /\ validateRotationConfig(createRotationConfig(rot.customMaxAge))
  /\ PersistedRotationCount(rot.keyName) = rot.countBefore + 1

\* C4: rotateKeyWithAudit never returns normally after a step has failed: the
\* error is thrown on to the caller after the failure has been recorded, so
\* every returned result has success = true and a failed rotation is always
\* seen as a thrown error.
C4_FailureIsThrown ==
  /\ (rot.error # "none" => pc \in {"catch", "finally", "done"})
  /\ (pc \in TryBlock => rot.error = "none")
  /\ (pc = "done" =>
        /\ rot.outcome \in {"returned", "thrown"}
        /\ (rot.error # "none" => rot.outcome = "thrown")
        /\ (rot.outcome = "returned" =>
              rot.rotationResult.success /\ EveryStepSucceeded)
        /\ (rot.outcome = "thrown" =>
              /\ ~rot.rotationResult.success
              /\ ~EveryStepSucceeded
              /\ (rot.keyName \in DOMAIN metaFile => FailureRecorded)))

C4_Witness ==
  /\ RotationThrew
  /\ rot.error = "failed to update key - key value unchanged"
  /\ FailureRecorded

\* C5: whenever rotateKeyWithAudit throws, whatever step failed (a failure
\* part-way through re-encrypting a batch included), the persisted
\* rotationCount equals its value before the call.
C5_CountKeptOnFailure ==
  (pc \in {"catch", "finally", "done"} /\ rot.error # "none") =>
    PersistedRotationCount(rot.keyName) = rot.countBefore

C5_Witness ==
  /\ RotationThrew
  /\ rot.error = "encryption failed"
  /\ Positions("encrypt") # {}
  /\ Cardinality(Positions("encrypt")) < Cardinality(DOMAIN rot.decryptedData)
  /\ PersistedRotationCount(rot.keyName) = rot.countBefore

\* ---- C6
KeyNotFound == rot.error = "key not found in metadata"

\* C6 as stated: rotateKeyWithAudit for a key with no record throws the
\* key-not-found error before the secret file or the environment file is
\* read or written, and leaves the metadata store unchanged.
C6_NotFoundAsStated ==
  /\ [](pc = "done" /\ rot.countBefore = Undef => rot.outcome = "thrown" /\ KeyNotFound)
  /\ [][KeyNotFound' =>
          /\ rot'.trace = <<>>
          /\ secrets' = secrets /\ env' = env
          /\ metaFile' = metaFile]_vars

\* C6 amended: rotateKeyWithAudit for a key with no record throws the
\* key-not-found error before the secret file or the environment file is
\* read or written, and creates no record, audit event or rotation entry
\* for that key; the records of the other keys are left unchanged unless
\* reason is 'expired' or 'compromised', in which case the system audit of
\* the finally block runs a scheduled status check on every key on record.
C6_NotFoundAmended ==
  /\ [](pc = "done" /\ rot.countBefore = Undef => rot.outcome = "thrown" /\ KeyNotFound)
  /\ [][KeyNotFound' =>
          /\ rot'.trace = <<>>
          /\ secrets' = secrets /\ env' = env
          /\ rot'.keyName \notin DOMAIN metaFile'
          /\ DOMAIN metaFile' = DOMAIN metaFile
          /\ (rot'.reason \notin {"expired", "compromised"} => metaFile' = metaFile)
          /\ \A k \in DOMAIN metaFile :
               /\ metaFile'[k].rotationCount = metaFile[k].rotationCount
               /\ metaFile'[k].auditTrail.rotationHistory =
                    metaFile[k].auditTrail.rotationHistory]_vars

C6_Witness ==
  /\ RotationThrew
  /\ KeyNotFound
  /\ rot.reason = "expired"
  /\ \E k \in DOMAIN metaFile :
       \E i \in 1..Len(metaFile[k].auditTrail.healthCheckHistory) :
         metaFile[k].auditTrail.healthCheckHistory[i].checkSource = "scheduled"

\* ---- C7, C8: the fields of a record that are to be kept
Kept == DOMAIN metaFile \cap DOMAIN metaFile'

\* C7: for every key, the persisted rotationCount never decreases across any
\* sequence of storeBaseEnvironmentKey, rotateKeyWithAudit,
\* checkKeyRotationStatus, recordAuditEvent, recordKeyAccess and
\* updateAuditTrail calls.
C7_RotationCountNeverDecreases ==
  [][\A k \in Kept : metaFile'[k].rotationCount >= metaFile[k].rotationCount]_vars

\* a record whose rotationCount has been counted up
C7_Witness ==
  \E k \in DOMAIN metaFile :
    /\ metaFile[k].rotationCount = 1
    /\ getKeyValue(secrets, "alt", k) = NoKey

\* C8: the createdAt of a record never changes after the record is first
\* created, across any sequence of operations on that key, rotateKeyWithAudit
\* and storeBaseEnvironmentKey with shouldRotateKey = true included.
C8_CreatedAtNeverChanges ==
  [][\A k \in Kept : metaFile'[k].createdAt = metaFile[k].createdAt]_vars

\* a record stored again, with shouldRotateKey, after the clock has moved
C8_Witness ==
  \E k \in DOMAIN metaFile :
    /\ metaFile[k].createdAt = 1
    /\ metaFile[k].rotationCount = 1
    /\ metaFile[k].lastRotatedAt = metaFile[k].createdAt

\* ---- C10
\* `after` is `before` with entries appended at the tail, the oldest
\* entries dropped at most
AppendedTo(before, after) ==
  \E dropped \in 0..Len(before) :
    /\ Len(after) >= Len(before) - dropped
    /\ \A i \in 1..(Len(before) - dropped) : after[i] = before[dropped + i]
    /\ (dropped > 0 => Len(after) >= Len(before))

\* C10: the persisted audit trail is append-only: across recordAuditEvent,
\* recordKeyAccess, checkKeyRotationStatus and rotateKeyWithAudit calls the
\* persisted auditEvents and healthCheckHistory change only by appending at
\* the tail and dropping the oldest entries at the cap; the 'rotation
\* starting' event is still persisted when the rotation returns.
C10_AuditTrailAppendOnly ==
  /\ [][(pc # "idle" \/ RecordAuditEvent \/ RecordKeyAccess \/ CheckKeyRotationStatus)
          => \A k \in Kept :
               /\ AppendedTo(metaFile[k].auditTrail.auditEvents,
                             metaFile'[k].auditTrail.auditEvents)
               /\ AppendedTo(metaFile[k].auditTrail.healthCheckHistory,
                             metaFile'[k].auditTrail.healthCheckHistory)]_vars
  /\ [](RotationReturned =>
          \E i \in 1..Len(metaFile[rot.keyName].auditTrail.auditEvents) :
            metaFile[rot.keyName].auditTrail.auditEvents[i].details
              = "starting key rotation")

\* a rotation has returned and its 'rotation starting' event is not on record
C10_Witness ==
  /\ RotationReturned
  /\ \A i \in 1..Len(metaFile[rot.keyName].auditTrail.auditEvents) :
       metaFile[rot.keyName].auditTrail.auditEvents[i].details
         # "starting key rotation"
  /\ metaFile[rot.keyName].auditTrail.healthCheckHistory # <<>>

\* ------------------------------------------------------------ SpecAudit
\* One key is stored, then recordAuditEvent is called for it again and
\* again, the clock moving one tick before each call: the event of call
\* number n carries timestamp n, the 'created' event of the store timestamp 0.
AuditedKey == "K1"

InitAudit ==
  /\ keyRotationConfig \in ProcessConfigs
  /\ now = 0
  /\ metaFile = recordKeyStorageAuditEvent(
                  updateKeyMetadata(EmptyMap, AuditedKey, 0, FALSE, FALSE).file,
                  AuditedKey, FALSE)
  /\ secrets = [f \in SecretFiles |-> [k \in KeyNames |->
                  IF f = BASE_ENV_FILE /\ k = AuditedKey THEN "kA" ELSE NoKey]]
  /\ env = EnvFileA
  /\ pc = "idle"
  /\ rot = NoRotation
  /\ ops = 0

AuditClockTick ==
  /\ ops < MaxAuditCalls /\ now = ops
  /\ now' = now + 1
  /\ UNCHANGED <<keyRotationConfig, metaFile, secrets, env, pc, rot, ops>>

AuditCall ==
  /\ ops < MaxAuditCalls /\ now = ops + 1
  /\ ops' = ops + 1
  /\ metaFile' = recordAuditEvent(metaFile, AuditedKey, "accessed",
                                  IF ops % 2 = 0 THEN "info" ELSE "warning",
                                  "caller", "external event")
  /\ UNCHANGED <<keyRotationConfig, now, secrets, env, pc, rot>>

NextAudit == AuditClockTick \/ AuditCall

SpecAudit == InitAudit /\ [][NextAudit]_vars

\* events handed to the record so far: the 'created' event and one per call
EventsRecorded == ops + 1

\* C9: after any number of recordAuditEvent calls the persisted auditEvents
\* list has at most 100 entries, and it is the oldest entries that are
\* dropped: the list is always the most recent 100 events, in order.
C9_AuditEventsCapped ==
  LET events == metaFile[AuditedKey].auditTrail.auditEvents IN
  /\ Len(events) <= MAX_AUDIT_EVENTS
  /\ Len(events) = IF EventsRecorded <= MAX_AUDIT_EVENTS
                     THEN EventsRecorded ELSE MAX_AUDIT_EVENTS
  /\ \A i \in 1..Len(events) :
       events[i].timestamp = EventsRecorded - Len(events) + i - 1

C9_Witness ==
  LET events == metaFile[AuditedKey].auditTrail.auditEvents IN
  /\ ops = MAX_AUDIT_EVENTS + 2
  /\ Len(events) = MAX_AUDIT_EVENTS
  /\ events[1].timestamp = 3
  /\ events[MAX_AUDIT_EVENTS].timestamp = ops

\* ------------------------------------------------------- SpecRepository
\* KeyMetadataRepository on the metadata file itself.  The file holds text:
\* what JSON.stringify(metadata, null, 2) produced, or anything else found
\* on disk.  A JSON scalar is [j, v]: a number v, null, a string (the ISO
\* string of date v; v < 0 for a string that is not a date), or a property
\* that is not there.

JsonNumber(n) == [j |-> "number", v |-> n]
JsonNull == [j |-> "null", v |-> 0]
JsonString(d) == [j |-> "string", v |-> d]
JsonOmitted == [j |-> "omitted", v |-> 0]

\* JSON.stringify of a number: a non-finite number is written as null
stringifyNumber(n) ==
  IF n = NotNumber THEN JsonOmitted
  ELSE IF n \in {Infinity, NaN} THEN JsonNull ELSE JsonNumber(n)

\* JSON.stringify of a Date (Date.prototype.toJSON): the ISO string, null
\* for an invalid Date; an undefined property is left out
stringifyDate(d) ==
  IF d = Undef THEN JsonOmitted
  ELSE IF d >= 0 THEN JsonString(d) ELSE JsonNull

stringifyEvents(events) ==
  [i \in 1..Len(events) |-> [events[i] EXCEPT !.timestamp = stringifyDate(@)]]

stringifyHealthChecks(entries) ==
  [i \in 1..Len(entries) |->
     [entries[i] EXCEPT !.timestamp = stringifyDate(@),
                        !.ageInDays = stringifyNumber(@),
                        !.daysUntilExpiry = stringifyNumber(@)]]

stringifyProperties(m) ==
  [m EXCEPT
     !.createdAt = stringifyDate(@),
     !.rotationCount = stringifyNumber(@),
     !.lastRotatedAt = stringifyDate(@),
     !.auditTrail = [auditEvents |-> stringifyEvents(@.auditEvents),
                     rotationHistory |-> stringifyEvents(@.rotationHistory),
                     healthCheckHistory |->
                       stringifyHealthChecks(@.healthCheckHistory),
                     lastHealthCheck |-> stringifyDate(@.lastHealthCheck)],
     !.usageTracking.lastAccessedAt = stringifyDate(@),
     !.statusTracking.lastStatusChange = stringifyDate(@)]

stringifyRotationConfig(config) ==
  [maxAgeInDays |-> stringifyNumber(config.maxAgeInDays),
   warningThresholdInDays |-> stringifyNumber(config.warningThresholdInDays)]

stringifyKeyMetadata(m) ==
  LET written == stringifyProperties(m)
  IN IF "rotationConfig" \in DOMAIN m
       THEN [written EXCEPT !.rotationConfig = stringifyRotationConfig(@)]
       ELSE written

\* JSON.stringify(metadata, null, 2)
stringify(metadata) ==
  [keyName \in DOMAIN metadata |-> stringifyKeyMetadata(metadata[keyName])]

dateFields ==
  {"createdAt", "lastRotatedAt", "lastAccessedAt", "lastStatusChange",
   "lastScheduledCheck", "lastHealthCheck", "lastWarningIssued", "timestamp"}

\* dateReviver(key, value) on a property that is to hold a Date: a string
\* under one of the dateFields names becomes a Date if it parses as one;
\* whatever else comes back is not a Date
dateReviver(key, value) ==
  IF value.j = "omitted" THEN Undef
  ELSE IF key \in dateFields /\ value.j = "string"
    THEN (IF value.v >= 0 THEN value.v ELSE NotADate)
    ELSE NotADate

\* a property that is to hold a number, as JSON.parse gives it back
parseNumber(value) == IF value.j = "number" THEN value.v ELSE NotNumber

parseEvents(events) ==
  [i \in 1..Len(events) |->
     [events[i] EXCEPT !.timestamp = dateReviver("timestamp", @)]]

parseHealthChecks(entries) ==
  [i \in 1..Len(entries) |->
     [entries[i] EXCEPT !.timestamp = dateReviver("timestamp", @),
                        !.ageInDays = parseNumber(@),
                        !.daysUntilExpiry = parseNumber(@)]]

parseRotationConfig(config) ==
  [maxAgeInDays |-> parseNumber(config.maxAgeInDays),
   warningThresholdInDays |-> parseNumber(config.warningThresholdInDays)]

\* one record of the file as JSON.parse(content, this.dateReviver) builds it
parseKeyMetadata(m) ==
  LET revived ==
        [m EXCEPT
           !.createdAt = dateReviver("createdAt", @),
           !.rotationCount = parseNumber(@),
           !.lastRotatedAt = dateReviver("lastRotatedAt", @),
           !.auditTrail = [auditEvents |-> parseEvents(@.auditEvents),
                           rotationHistory |-> parseEvents(@.rotationHistory),
                           healthCheckHistory |->
                             parseHealthChecks(@.healthCheckHistory),
                           lastHealthCheck |->
                             dateReviver("lastHealthCheck", @.lastHealthCheck)],
           !.usageTracking.lastAccessedAt = dateReviver("lastAccessedAt", @),
           !.statusTracking.lastStatusChange = dateReviver("lastStatusChange", @)]
  IN IF "rotationConfig" \in DOMAIN m
       THEN [revived EXCEPT !.rotationConfig = parseRotationConfig(@)]
       ELSE revived

parse(json) == [keyName \in DOMAIN json |-> parseKeyMetadata(json[keyName])]

\* what the metadata file can hold
NoFile == [kind |-> "absent", json |-> EmptyMap]
EmptyFile == [kind |-> "empty", json |-> EmptyMap]      \* '' or white space
NotJsonFile == [kind |-> "text", json |-> EmptyMap]     \* JSON.parse throws
JsonArrayFile == [kind |-> "array", json |-> EmptyMap]  \* JSON, not an object
JsonFile(json) == [kind |-> "object", json |-> json]

\* readKeyMetadata on the file: [threw, metadata]
readKeyMetadataFile_ValidRecords(content) ==
  [threw |-> FALSE,
   metadata |->
     IF content.kind # "object" THEN EmptyMap
     ELSE LET metadata == parse(content.json)
              valid == {k \in DOMAIN metadata : validateMetadata(metadata[k])}
          IN [k \in valid |-> metadata[k]]]

readKeyMetadataFile(content) ==
  [threw |-> FALSE,    \* the outer catch returns {}
   metadata |->
     IF content.kind = "absent" THEN EmptyMap
     ELSE IF content.kind = "empty" THEN EmptyMap
     ELSE IF content.kind = "text" THEN EmptyMap      \* logAndThrow, caught
     ELSE IF content.kind = "array" THEN EmptyMap     \* Array.isArray(metadata)
     ELSE IF ~validateMetadataRecord(parse(content.json)) THEN EmptyMap
     ELSE parse(content.json)]

\* createMetadataBackup: a copy of the file as it is, if there is one and
\* nothing fails on the way; never throws
createMetadataBackup(directory, backupWorks) ==
  IF directory.content.kind # "absent" /\ backupWorks
    THEN Append(directory.archive, directory.content)
    ELSE directory.archive

\* variant of writeKeyMetadata that makes the backup after the write
writeKeyMetadataFile_BackupLast(directory, metadata, backupWorks) ==
  IF ~validateMetadataRecord(metadata)
    THEN [threw |-> TRUE, directory |-> directory]
    ELSE LET written == [directory EXCEPT !.content = JsonFile(stringify(metadata))]
         IN [threw |-> FALSE,
             directory |-> [written EXCEPT
                              !.archive = createMetadataBackup(written, backupWorks)]]

\* variant of writeKeyMetadata that writes whatever it is given
writeKeyMetadataFile_NoValidation(directory, metadata, backupWorks) ==
  [threw |-> FALSE,
   directory |-> [content |-> JsonFile(stringify(metadata)),
                  archive |-> createMetadataBackup(directory, backupWorks)]]

\* writeKeyMetadata on the directory (the file and its archive folder):
\* backup, validation, write
writeKeyMetadataFile(directory, metadata, backupWorks) ==
  LET backedUp == [directory EXCEPT
                     !.archive = createMetadataBackup(directory, backupWorks)]
  IN IF ~validateMetadataRecord(metadata)
       THEN [threw |-> TRUE, directory |-> backedUp]
       ELSE [threw |-> FALSE,
             directory |-> [backedUp EXCEPT
                              !.content = JsonFile(stringify(metadata))]]

\* ---- the records handed to writeKeyMetadata, and found in the file
MaxRepositoryCalls == 1   \* repository calls made in SpecRepository

Variants == {"none", "fresh", "used", "unbounded", "noConfig", "badDate"}

\* a record as createKeyMetadata builds it for a new key
FreshMetadata(keyName) ==
  createKeyMetadata(keyName, keyRotationConfig, FALSE, FALSE, <<>>, <<>>, Undef)

\* a record after an in-place rotation, a status check and an access
UsedMetadata(keyName) ==
  LET stored == createKeyMetadata(keyName, keyRotationConfig, TRUE, TRUE,
                                  <<EnvironmentFile>>, <<"V1">>, 0)
      checked == addHealthCheckEntryForMonitoring(stored, 0,
                   keyRotationConfig.maxAgeInDays, "healthy", "manual")
  IN [checked EXCEPT
        !.auditTrail.auditEvents =
           <<[timestamp |-> now, eventType |-> "rotated", severity |-> "info",
              source |-> "storeBaseEnvironmentKey", details |-> "rotated"]>>,
        !.auditTrail.rotationHistory =
           <<createAuditEntry(now, "manual", <<EnvironmentFile>>, <<"V1">>,
                              TRUE, TRUE, "")>>,
        !.usageTracking.lastAccessedAt = now]

SampleMetadata(keyName, variant) ==
  CASE variant = "fresh" -> FreshMetadata(keyName)
    [] variant = "used" -> UsedMetadata(keyName)
    \* what createKeyMetadata builds when customMaxAge is Infinity
    [] variant = "unbounded" ->
         [FreshMetadata(keyName) EXCEPT !.rotationConfig.maxAgeInDays = Infinity]
    \* a record with no rotationConfig property
    [] variant = "noConfig" ->
         [f \in (DOMAIN FreshMetadata(keyName)) \ {"rotationConfig"} |->
            FreshMetadata(keyName)[f]]
    \* a record whose createdAt is not a Date
    [] variant = "badDate" ->
         [FreshMetadata(keyName) EXCEPT !.createdAt = NotADate]

SampleMap(choice) ==
  [keyName \in {k \in KeyNames : choice[k] # "none"} |->
     SampleMetadata(keyName, choice[keyName])]

NoCall == [op |-> "none", metadata |-> EmptyMap, threw |-> FALSE,
           backupWorks |-> FALSE, before |-> [content |-> NoFile, archive |-> <<>>]]

\* metaFile is the metadata directory: the file and its archive folder
InitRepository ==
  /\ keyRotationConfig \in ProcessConfigs
  /\ now \in 0..MaxNow
  /\ \E content \in {NoFile, EmptyFile, NotJsonFile, JsonArrayFile}
                    \cup {JsonFile(stringify(SampleMap(choice))) :
                            choice \in [KeyNames -> Variants]} :
       metaFile = [content |-> content, archive |-> <<>>]
  /\ secrets = [f \in SecretFiles |-> [k \in KeyNames |-> NoKey]]
  /\ env = EnvFileA
  /\ pc = "idle"
  /\ rot = NoCall
  /\ ops = 0

ReadKeyMetadata ==
  /\ ops < MaxRepositoryCalls
  /\ ops' = ops + 1
  /\ LET read == readKeyMetadataFile(metaFile.content)
     IN rot' = [op |-> "readKeyMetadata", metadata |-> read.metadata,
                threw |-> read.threw, backupWorks |-> FALSE, before |-> metaFile]
  /\ UNCHANGED <<keyRotationConfig, now, metaFile, secrets, env, pc>>

WriteKeyMetadata ==
  /\ ops < MaxRepositoryCalls
  /\ ops' = ops + 1
  /\ \E choice \in [KeyNames -> Variants], backupWorks \in BOOLEAN :
       LET written == writeKeyMetadataFile(metaFile, SampleMap(choice), backupWorks)
       IN /\ metaFile' = written.directory
          /\ rot' = [op |-> "writeKeyMetadata", metadata |-> SampleMap(choice),
                     threw |-> written.threw, backupWorks |-> backupWorks,
                     before |-> metaFile]
  /\ UNCHANGED <<keyRotationConfig, now, secrets, env, pc>>

NextRepository == ReadKeyMetadata \/ WriteKeyMetadata

SpecRepository == InitRepository /\ [][NextRepository]_vars

\* ---- C11
\* the file is absent, empty, not JSON, not an object, or holds a record
\* that fails validation
Corrupt(content) ==
  \/ content.kind # "object"
  \/ \E k \in DOMAIN content.json : ~validateMetadata(parseKeyMetadata(content.json[k]))

\* C11: readKeyMetadata never raises; it returns the empty map when the file
\* is absent, empty, not valid JSON, or when any single record fails
\* validation; it never returns a partial map of the valid records only.
C11_ReadNeverRaises ==
  rot.op = "readKeyMetadata" =>
    /\ ~rot.threw
    /\ (Corrupt(rot.before.content) => rot.metadata = EmptyMap)
    /\ DOMAIN rot.metadata \in {{}, DOMAIN rot.before.content.json}

\* a file with a valid record and a record without rotationConfig was read
C11_Witness ==
  /\ rot.op = "readKeyMetadata"
  /\ rot.before.content.kind = "object"
  /\ DOMAIN rot.before.content.json = KeyNames
  /\ validateMetadata(parseKeyMetadata(rot.before.content.json["K1"]))
  /\ "rotationConfig" \notin DOMAIN rot.before.content.json["K2"]
  /\ rot.metadata = EmptyMap

\* ---- C12
\* C12: if the map passed to writeKeyMetadata fails validation,
\* writeKeyMetadata raises an error and the content of the metadata file is
\* unchanged.
C12_RejectedWriteKeepsFile ==
  (rot.op = "writeKeyMetadata" /\ ~validateMetadataRecord(rot.metadata)) =>
    /\ rot.threw
    /\ metaFile.content = rot.before.content

\* a map with a malformed record was handed in while the file held records
C12_Witness ==
  /\ rot.op = "writeKeyMetadata"
  /\ ~validateMetadataRecord(rot.metadata)
  /\ rot.before.content.kind = "object"
  /\ ~Corrupt(rot.before.content)
  /\ DOMAIN rot.before.content.json # {}
  /\ Len(metaFile.archive) > Len(rot.before.archive)

\* ---- C13
\* C13: writeKeyMetadata attempts the backup of the existing file before it
\* writes the new content, so every backup that is created holds the
\* pre-write content; a failure while creating the backup neither prevents
\* the new content from being written nor raises an error to the caller.
C13_BackupBeforeWrite ==
  rot.op = "writeKeyMetadata" =>
    /\ \/ metaFile.archive = rot.before.archive
       \/ metaFile.archive = Append(rot.before.archive, rot.before.content)
    /\ (rot.backupWorks /\ rot.before.content.kind # "absent"
          => metaFile.archive = Append(rot.before.archive, rot.before.content))
    /\ (validateMetadataRecord(rot.metadata) =>
          /\ ~rot.threw
          /\ metaFile.content = JsonFile(stringify(rot.metadata)))

\* a write whose backup failed replaced the records of the file
C13_Witness ==
  /\ rot.op = "writeKeyMetadata"
  /\ ~rot.backupWorks
  /\ ~rot.threw
  /\ rot.before.content.kind = "object"
  /\ metaFile.content # rot.before.content
  /\ metaFile.archive = rot.before.archive
  /\ DOMAIN rot.metadata # {}

\* ---- C14
\* C14: for every metadata map accepted by writeKeyMetadata, a subsequent
\* readKeyMetadata returns a structurally equal map, every Date-typed field
\* included; a map accepted on write is never rejected as corrupt on the
\* next read.
C14_WriteReadRoundTrip ==
  (rot.op = "writeKeyMetadata" /\ ~rot.threw) =>
    readKeyMetadataFile(metaFile.content).metadata = rot.metadata

\* an accepted map with dates in every Date-typed field reads back equal
C14_Witness ==
  /\ rot.op = "writeKeyMetadata" /\ ~rot.threw
  /\ DOMAIN rot.metadata = KeyNames
  /\ rot.metadata["K1"].lastRotatedAt = 1
  /\ rot.metadata["K1"].auditTrail.healthCheckHistory # <<>>
  /\ readKeyMetadataFile(metaFile.content).metadata = rot.metadata

\* ---------------------------------------------------------- SpecManager
\* A KeyLifecycleManager is constructed, with one of ManagerConfigs, over
\* the store that earlier runs have left: records built by createKeyMetadata
\* under any of these configurations.  Then it is called; rot is the call
\* made last and what it returned.
MaxManagerCalls == 1   \* manager calls made in SpecManager
MaxManagerNow == 6     \* last tick of the clock in SpecManager
FirstManagerNow == 2   \* the tick at which the manager is constructed

ManagerConfigs ==
  {[maxAgeInDays |-> 2, warningThresholdInDays |-> 1],
   [maxAgeInDays |-> 3, warningThresholdInDays |-> 2]}

\* rotation configs of the records on file: customMaxAge or the maxAgeInDays
\* of the process that stored the key, and its warningThresholdInDays
StoredConfigs ==
  {[maxAgeInDays |-> 2, warningThresholdInDays |-> 1],
   [maxAgeInDays |-> 3, warningThresholdInDays |-> 1],
   [maxAgeInDays |-> 3, warningThresholdInDays |-> 2]}

NumberInputs == {NotNumber, NaN, -1, 0, 1, 2, Infinity}

StoredMetadata(keyName, rotationConfig, lastRotatedAt) ==
  [keyName |-> keyName,
   createdAt |-> 0,
   rotationCount |-> IF lastRotatedAt = Undef THEN 0 ELSE 1,
   lastRotatedAt |-> lastRotatedAt,
   rotationConfig |-> rotationConfig,
   auditTrail |-> createEmptyAuditTrail,
   usageTracking |-> [environmentsUsedIn |-> <<>>, dependentVariables |-> <<>>,
                      lastAccessedAt |-> Undef],
   statusTracking |-> [currentStatus |-> "healthy", lastStatusChange |-> 0]]

StoredFiles ==
  LET first == {EmptyMap}
        \cup {Put(EmptyMap, "K1", StoredMetadata("K1", c, r)) :
                c \in StoredConfigs, r \in {Undef, FirstManagerNow}}
  IN first \cup {Put(f, "K2", StoredMetadata("K2", keyRotationConfig, Undef)) :
                   f \in first}

InitManager ==
  /\ keyRotationConfig \in ManagerConfigs
  /\ now = FirstManagerNow
  /\ metaFile \in StoredFiles
  /\ secrets = [f \in SecretFiles |-> [k \in KeyNames |-> NoKey]]
  /\ env = EnvFileA
  /\ pc = "idle"
  /\ rot = [op |-> "none"]
  /\ ops = 0

ManagerClockTick ==
  /\ ops = 0 /\ now < MaxManagerNow
  /\ now' = now + 1
  /\ UNCHANGED <<keyRotationConfig, metaFile, secrets, env, pc, rot, ops>>

CanCallManager == ops < MaxManagerCalls

CallValidateRotationConfig ==
  \E maxAgeInDays \in NumberInputs, warningThresholdInDays \in NumberInputs :
    LET config == [maxAgeInDays |-> maxAgeInDays,
                   warningThresholdInDays |-> warningThresholdInDays]
    IN /\ CanCallManager
       /\ ops' = ops + 1
       /\ rot' = [op |-> "validateRotationConfig", config |-> config,
                  threw |-> ~validateRotationConfig(config), returned |-> config]
       /\ UNCHANGED <<keyRotationConfig, now, metaFile, secrets, env, pc>>

CallCheckKeyRotationStatus ==
  \E keyName \in KeyNames, checkSource \in CheckSources :
    \E checked \in {checkKeyRotationStatus(metaFile, keyName, checkSource)} :
       /\ CanCallManager
       /\ ops' = ops + 1
       /\ metaFile' = checked.file
       /\ rot' = [op |-> "checkKeyRotationStatus", keyName |-> keyName,
                  threw |-> FALSE, returned |-> checked.status, before |-> metaFile]
       /\ UNCHANGED <<keyRotationConfig, now, secrets, env, pc>>

CallRecordAuditEvent ==
  \E keyName \in KeyNames :
    /\ CanCallManager
    /\ ops' = ops + 1
    /\ metaFile' = recordAuditEvent(metaFile, keyName, "accessed", "info",
                                    "caller", "external event")
    /\ rot' = [op |-> "recordAuditEvent", keyName |-> keyName, threw |-> FALSE,
               before |-> metaFile]
    /\ UNCHANGED <<keyRotationConfig, now, secrets, env, pc>>

CallRecordKeyAccess ==
  \E keyName \in KeyNames :
    /\ CanCallManager
    /\ ops' = ops + 1
    /\ metaFile' = recordKeyAccess(metaFile, keyName, "caller")
    /\ rot' = [op |-> "recordKeyAccess", keyName |-> keyName, threw |-> FALSE,
               before |-> metaFile]
    /\ UNCHANGED <<keyRotationConfig, now, secrets, env, pc>>

CallUpdateAuditTrail ==
  \E keyName \in KeyNames, success \in BOOLEAN :
    /\ CanCallManager
    /\ ops' = ops + 1
    /\ metaFile' = updateAuditTrail(metaFile, keyName, "manual", now,
                     <<EnvironmentFile>>, 0, FALSE, success,
                     IF success THEN "none" ELSE "reported failure", <<>>)
    /\ rot' = [op |-> "updateAuditTrail", keyName |-> keyName, threw |-> FALSE,
               before |-> metaFile]
    /\ UNCHANGED <<keyRotationConfig, now, secrets, env, pc>>

CallPerformComprehensiveAudit ==
  \E auditResult \in {performComprehensiveAudit(metaFile)} :
     /\ CanCallManager
     /\ ops' = ops + 1
     /\ metaFile' = auditResult.file
     /\ rot' = [op |-> "performComprehensiveAudit", threw |-> FALSE,
                returned |-> auditResult, before |-> metaFile]
     /\ UNCHANGED <<keyRotationConfig, now, secrets, env, pc>>

CallPerformStartupSecurityCheck ==
  \E checkResult \in {performStartupSecurityCheck(metaFile)} :
     /\ CanCallManager
     /\ ops' = ops + 1
     /\ metaFile' = checkResult.file
     /\ rot' = [op |-> "performStartupSecurityCheck", threw |-> FALSE,
                returned |-> checkResult, before |-> metaFile]
     /\ UNCHANGED <<keyRotationConfig, now, secrets, env, pc>>

CallGetKeyInformation ==
  \E keyName \in KeyNames :
    \E keyInformation \in {getKeyInformation(metaFile, keyName)} :
       /\ CanCallManager
       /\ ops' = ops + 1
       /\ metaFile' = keyInformation.file
       /\ rot' = [op |-> "getKeyInformation", keyName |-> keyName, threw |-> FALSE,
                  returned |-> keyInformation, before |-> metaFile]
       /\ UNCHANGED <<keyRotationConfig, now, secrets, env, pc>>

NextManager ==
  \/ ManagerClockTick
  \/ CallValidateRotationConfig
  \/ CallCheckKeyRotationStatus
  \/ CallRecordAuditEvent
  \/ CallRecordKeyAccess
  \/ CallUpdateAuditTrail
  \/ CallPerformComprehensiveAudit
  \/ CallPerformStartupSecurityCheck
  \/ CallGetKeyInformation

SpecManager == InitManager /\ [][NextManager]_vars

\* ---- C15
\* a value that is a number in the arithmetical sense
ANumber(value) == value \notin {NotNumber, NaN}

\* C15: validateRotationConfig accepts (returns the config unchanged) every
\* config with 0 < warningThresholdInDays < maxAgeInDays, and fails with a
\* configuration error whenever maxAgeInDays is not a positive number,
\* warningThresholdInDays is negative or not a number, or
\* warningThresholdInDays >= maxAgeInDays.
C15_ConfigValidated ==
  rot.op = "validateRotationConfig" =>
    LET maxAge == rot.config.maxAgeInDays
        warning == rot.config.warningThresholdInDays
    IN /\ (ANumber(maxAge) /\ ANumber(warning) /\ 0 < warning /\ warning < maxAge)
            => (~rot.threw /\ rot.returned = rot.config)
       /\ (\/ ~(ANumber(maxAge) /\ maxAge > 0)
           \/ ~ANumber(warning)
           \/ warning < 0
           \/ (ANumber(maxAge) /\ ANumber(warning) /\ warning >= maxAge))
            => rot.threw

\* a config with 0 < warning < max was accepted
C15_Witness ==
  /\ rot.op = "validateRotationConfig"
  /\ rot.config = [maxAgeInDays |-> 2, warningThresholdInDays |-> 1]
  /\ ~rot.threw

\* ---- C16
\* whole days from the reference date of the record to now, rounded up
DaysSince(metadata) ==
  LET referenceDate == IF metadata.lastRotatedAt # Undef
                         THEN metadata.lastRotatedAt ELSE metadata.createdAt
  IN CHOOSE d \in 0..(now + 1) :
       /\ (d - 1) * TicksPerDay < now - referenceDate
       /\ now - referenceDate <= d * TicksPerDay

\* C16: for a key with a record, checkKeyRotationStatus returns
\* needsRotation = (ageInDays >= maxAgeInDays), daysUntilRotation =
\* max(0, maxAgeInDays - ageInDays) and needsWarning = (not needsRotation and
\* daysUntilRotation <= warningThresholdInDays), ageInDays counted from
\* lastRotatedAt (createdAt if never rotated), maxAgeInDays and
\* warningThresholdInDays being those of the key's own rotationConfig;
\* needsRotation and needsWarning are never both true.
C16_StatusFromOwnConfig ==
  (rot.op = "checkKeyRotationStatus" /\ rot.keyName \in DOMAIN rot.before) =>
    LET own == rot.before[rot.keyName].rotationConfig
        ageInDays == DaysSince(rot.before[rot.keyName])
        remaining == own.maxAgeInDays - ageInDays
        daysUntilRotation == IF remaining > 0 THEN remaining ELSE 0
    IN /\ rot.returned.ageInDays = ageInDays
       /\ rot.returned.needsRotation = (ageInDays >= own.maxAgeInDays)
       /\ rot.returned.daysUntilRotation = daysUntilRotation
       /\ rot.returned.needsWarning =
            (~rot.returned.needsRotation
             /\ daysUntilRotation <= own.warningThresholdInDays)
       /\ ~(rot.returned.needsRotation /\ rot.returned.needsWarning)

\* a key whose own warning threshold is not that of the process was checked
C16_Witness ==
  /\ rot.op = "checkKeyRotationStatus" /\ rot.keyName \in DOMAIN rot.before
  /\ rot.before[rot.keyName].rotationConfig.warningThresholdInDays
       # keyRotationConfig.warningThresholdInDays
  /\ rot.before[rot.keyName].lastRotatedAt # Undef
  /\ rot.returned.ageInDays = 1

\* ---- C17
\* C17: for a key name with no record, checkKeyRotationStatus returns the
\* default status (needsRotation = false, needsWarning = false, ageInDays = 0,
\* daysUntilRotation = the process maxAgeInDays) without raising, and neither
\* it nor recordAuditEvent, recordKeyAccess or updateAuditTrail writes the
\* metadata file or creates a record for that key.
C17_UnknownKeyLeftAlone ==
  (/\ rot.op \in {"checkKeyRotationStatus", "recordAuditEvent", "recordKeyAccess",
                  "updateAuditTrail"}
   /\ rot.keyName \notin DOMAIN rot.before) =>
    /\ ~rot.threw
    /\ metaFile = rot.before
    /\ rot.keyName \notin DOMAIN metaFile
    /\ (rot.op = "checkKeyRotationStatus" =>
          rot.returned = [needsRotation |-> FALSE, needsWarning |-> FALSE,
                          ageInDays |-> 0,
                          daysUntilRotation |-> keyRotationConfig.maxAgeInDays])

\* the status of a key not on record was asked for, another key being on record
C17_Witness ==
  /\ rot.op = "checkKeyRotationStatus"
  /\ rot.keyName \notin DOMAIN rot.before
  /\ DOMAIN rot.before # {}
  /\ rot.returned.daysUntilRotation = 3

\* ---- C18
NeedsRotation(file, keyName) ==
  checkKeyRotationStatus(file, keyName, "scheduled").status.needsRotation
NeedsWarning(file, keyName) ==
  checkKeyRotationStatus(file, keyName, "scheduled").status.needsWarning

HealthOf(file) ==
  IF \E k \in DOMAIN file : NeedsRotation(file, k) THEN "critical"
  ELSE IF \E k \in DOMAIN file : NeedsWarning(file, k) THEN "warning"
  ELSE "healthy"

\* C18: performComprehensiveAudit returns systemHealth = critical exactly
\* when at least one stored key needs rotation, warning exactly when none
\* needs rotation and at least one needs a warning, healthy otherwise; on an
\* empty store it returns healthy with all counts zero and no
\* recommendations; performStartupSecurityCheck passes exactly when
\* systemHealth is not critical.
C18_SystemHealth ==
  /\ rot.op = "performComprehensiveAudit" =>
       /\ rot.returned.systemHealth = HealthOf(rot.before)
       /\ (rot.before = EmptyMap =>
             /\ rot.returned.systemHealth = "healthy"
             /\ rot.returned.auditSummary =
                  [totalKeys |-> 0, healthyKeys |-> 0, warningKeys |-> 0,
                   criticalKeys |-> 0, expiredKeys |-> 0,
                   currentStatus |-> "healthy"]
             /\ rot.returned.keysNeedingRotation = <<>>
             /\ rot.returned.keysNeedingWarning = <<>>
             /\ rot.returned.expiredKeys = <<>>
             /\ rot.returned.recommendations = <<>>)
  /\ rot.op = "performStartupSecurityCheck" =>
       /\ rot.returned.systemHealth = HealthOf(rot.before)
       /\ rot.returned.passed = (rot.returned.systemHealth # "critical")

\* an audit of a store with a key to rotate and a key to warn about
C18_Witness ==
  /\ rot.op = "performStartupSecurityCheck"
  /\ ~rot.returned.passed
  /\ rot.returned.criticalKeys # <<>>
  /\ rot.returned.warningKeys # <<>>

\* ------------------------------------------------------------------
\* storeBaseEnvironmentKey, call by call.  rot is the record of the last
\* call: its arguments, what it found, and the files as they were.
MaxStoreCalls == 3     \* calls of storeBaseEnvironmentKey in SpecStore

InitStore ==
  /\ keyRotationConfig \in ProcessConfigs
  /\ now = 0
  /\ metaFile = EmptyMap
  /\ secrets = [f \in SecretFiles |-> [k \in KeyNames |-> NoKey]]
  /\ env \in InitialEnvFiles
  /\ pc = "idle"
  /\ rot = [op |-> "none"]
  /\ ops = 0

CallStoreBaseEnvironmentKey ==
  \E filePath \in SecretFiles, keyName \in KeyNames, keyValue \in StoreKeyValues,
     customMaxAge \in CustomMaxAges, shouldRotateKey \in BOOLEAN :
    \E result \in {storeBaseEnvironmentKey(secrets, metaFile, filePath, keyName,
                                           keyValue, customMaxAge, shouldRotateKey)} :
       /\ ops < MaxStoreCalls
       /\ ops' = ops + 1
       /\ secrets' = result.secrets
       /\ metaFile' = result.metaFile
       /\ rot' = [op |-> "storeBaseEnvironmentKey", filePath |-> filePath,
                  keyName |-> keyName, keyValue |-> keyValue,
                  customMaxAge |-> customMaxAge,
                  shouldRotateKey |-> shouldRotateKey,
                  keyExists |-> checkIfKeyExists(secrets, filePath, keyName),
                  threw |-> result.threw,
                  before |-> metaFile, filesBefore |-> secrets]
       /\ UNCHANGED <<keyRotationConfig, now, env, pc>>

NextStore == CallStoreBaseEnvironmentKey \/ AdvanceTime

SpecStore == InitStore /\ [][NextStore]_vars

\* ---- C19
\* C19: storeBaseEnvironmentKey called with shouldRotateKey = false for a key
\* name that already has a line in the target file raises no error and
\* changes neither the file nor the metadata store; repeating the call any
\* number of times leaves the state unchanged.
C19_ExistingKeyLeftAlone ==
  (rot.op = "storeBaseEnvironmentKey" /\ rot.keyExists /\ ~rot.shouldRotateKey) =>
    /\ ~rot.threw
    /\ secrets = rot.filesBefore
    /\ metaFile = rot.before
    /\ \A customMaxAge \in CustomMaxAges :
         storeBaseEnvironmentKey(secrets, metaFile, rot.filePath, rot.keyName,
                                 rot.keyValue, customMaxAge, FALSE)
           = [threw |-> FALSE, secrets |-> secrets, metaFile |-> metaFile]

\* a key on record was stored again, without shouldRotateKey, twice
C19_Witness ==
  /\ rot.op = "storeBaseEnvironmentKey" /\ rot.keyExists /\ ~rot.shouldRotateKey
  /\ rot.keyName \in DOMAIN metaFile
  /\ ops = 3
  /\ DOMAIN metaFile = {rot.keyName}
  /\ metaFile[rot.keyName].rotationCount = 0
  /\ Len(metaFile[rot.keyName].auditTrail.auditEvents) = 1
  /\ \A f \in SecretFiles, k \in KeyNames :
       secrets[f][k] # NoKey <=> (f = rot.filePath /\ k = rot.keyName)

\* ---- C20
\* the types of the audit events on record for a key
EventTypes(file, keyName) ==
  {file[keyName].auditTrail.auditEvents[i].eventType :
     i \in 1..Len(file[keyName].auditTrail.auditEvents)}

\* the last call of storeBaseEnvironmentKey wrote the file and a record
StoreWrote ==
  /\ rot.op = "storeBaseEnvironmentKey"
  /\ ~(rot.keyExists /\ ~rot.shouldRotateKey)
  /\ ~rot.threw

\* C20: when storeBaseEnvironmentKey does write, the record it persists has
\* status healthy and rotationCount 0 if the key was not in the file before,
\* and rotationCount equal to the previous rotationCount plus 1 if it
\* overwrote an existing key line; a 'created' audit event is persisted for
\* a brand-new key and a 'rotated' audit event for an in-place overwrite.
C20_RecordOfStoredKey ==
  StoreWrote =>
    /\ rot.keyName \in DOMAIN metaFile
    /\ ~rot.keyExists =>
         /\ metaFile[rot.keyName].statusTracking.currentStatus = "healthy"
         /\ metaFile[rot.keyName].rotationCount = 0
         /\ "created" \in EventTypes(metaFile, rot.keyName)
    /\ rot.keyExists =>
         /\ rot.keyName \in DOMAIN rot.before =>
              metaFile[rot.keyName].rotationCount
                = rot.before[rot.keyName].rotationCount + 1
         /\ "rotated" \in EventTypes(metaFile, rot.keyName)

\* a key line on record was overwritten: its count went from 1 to 2
C20_Witness ==
  /\ StoreWrote /\ rot.keyExists
  /\ rot.keyName \in DOMAIN rot.before
  /\ rot.before[rot.keyName].rotationCount = 1
  /\ metaFile[rot.keyName].rotationCount = 2

\* ------------------------------------------------------------------
\* The records of the metadata file, call by call: the writers that read
\* the file, change one key and write the map back.  metaFile is the
\* metadata directory as in SpecRepository.
MaxRecordCalls == 3    \* calls made in SpecRecords

\* variant of updateSingleKeyMetadata that writes the one record only
updateSingleKeyMetadataFile_OnlyThatKey(directory, keyName, updatedMetadata, backupWorks) ==
  writeKeyMetadataFile(directory, Put(EmptyMap, keyName, updatedMetadata), backupWorks)

\* KeyMetadataRepository.updateSingleKeyMetadata on the directory
updateSingleKeyMetadataFile(directory, keyName, updatedMetadata, backupWorks) ==
  writeKeyMetadataFile(directory,
    Put(readKeyMetadataFile(directory.content).metadata, keyName, updatedMetadata),
    backupWorks)

\* KeyMetadataRepository.removeKeyMetadata: [threw, returned, directory]
removeKeyMetadataFile(directory, keyName, backupWorks) ==
  LET currentMetadata == readKeyMetadataFile(directory.content).metadata
      written == writeKeyMetadataFile(directory,
                   [k \in (DOMAIN currentMetadata) \ {keyName} |-> currentMetadata[k]],
                   backupWorks)
  IN IF keyName \notin DOMAIN currentMetadata
       THEN [threw |-> FALSE, returned |-> FALSE, directory |-> directory]
       ELSE [threw |-> written.threw, returned |-> ~written.threw,
             directory |-> written.directory]

\* KeyLifecycleManager.updateKeyMetadata on the directory
updateKeyMetadataFile(directory, keyName, customMaxAge, keyExists, shouldRotateKey, backupWorks) ==
  LET metadata == readKeyMetadataFile(directory.content).metadata
      rotationConfig == createRotationConfig(customMaxAge)
  IN IF ~validateRotationConfig(rotationConfig)
       THEN [threw |-> TRUE, directory |-> directory]
       ELSE writeKeyMetadataFile(directory,
              Put(metadata, keyName,
                  createKeyMetadata(keyName, rotationConfig, keyExists,
                    shouldRotateKey, <<>>, <<>>,
                    IF keyName \in DOMAIN metadata
                      THEN metadata[keyName].rotationCount ELSE Undef)),
              backupWorks)

RecordMaxAges == {0, Infinity}     \* customMaxAge: not given, or Infinity

InitRecords ==
  /\ keyRotationConfig \in ProcessConfigs
  /\ now = 0
  /\ metaFile = [content |-> NoFile, archive |-> <<>>]
  /\ secrets = [f \in SecretFiles |-> [k \in KeyNames |-> NoKey]]
  /\ env = EnvFileA
  /\ pc = "idle"
  /\ rot = [op |-> "none"]
  /\ ops = 0

CanCallRecords == ops < MaxRecordCalls /\ ops' = ops + 1

CallUpdateKeyMetadata ==
  \E keyName \in KeyNames, customMaxAge \in RecordMaxAges,
     keyExists \in BOOLEAN, shouldRotateKey \in BOOLEAN, backupWorks \in BOOLEAN :
    \E result \in {updateKeyMetadataFile(metaFile, keyName, customMaxAge, keyExists,
                                         shouldRotateKey, backupWorks)} :
      /\ CanCallRecords
      /\ metaFile' = result.directory
      /\ rot' = [op |-> "updateKeyMetadata", keyName |-> keyName,
                 threw |-> result.threw, before |-> metaFile]
      /\ UNCHANGED <<keyRotationConfig, now, secrets, env, pc>>

CallUpdateSingleKeyMetadata ==
  \E keyName \in KeyNames, variant \in {"fresh", "used"}, backupWorks \in BOOLEAN :
    \E result \in {updateSingleKeyMetadataFile(metaFile, keyName,
                     SampleMetadata(keyName, variant), backupWorks)} :
      /\ CanCallRecords
      /\ metaFile' = result.directory
      /\ rot' = [op |-> "updateSingleKeyMetadata", keyName |-> keyName,
                 threw |-> result.threw, before |-> metaFile]
      /\ UNCHANGED <<keyRotationConfig, now, secrets, env, pc>>

CallRemoveKeyMetadata ==
  \E keyName \in KeyNames, backupWorks \in BOOLEAN :
    \E result \in {removeKeyMetadataFile(metaFile, keyName, backupWorks)} :
      /\ CanCallRecords
      /\ metaFile' = result.directory
      /\ rot' = [op |-> "removeKeyMetadata", keyName |-> keyName,
                 threw |-> result.threw, before |-> metaFile]
      /\ UNCHANGED <<keyRotationConfig, now, secrets, env, pc>>

NextRecords ==
  CallUpdateKeyMetadata \/ CallUpdateSingleKeyMetadata \/ CallRemoveKeyMetadata

SpecRecords == InitRecords /\ [][NextRecords]_vars

\* ---- C21
\* the key names that have a record in the file
RecordsIn(directory) == DOMAIN directory.content.json

\* C21: there is exactly one record per key name, and a key name present in
\* the metadata store stays present across any sequence of operations until
\* removeKeyMetadata is called for it: no other operation, writes made after
\* a read that returned an empty map included, removes a record.
C21_RecordsStayUntilRemoved ==
  rot.op # "none" =>
    \A keyName \in RecordsIn(rot.before) :
      \/ keyName \in RecordsIn(metaFile)
      \/ rot.op = "removeKeyMetadata" /\ rot.keyName = keyName

\* a record was removed by removeKeyMetadata and the other record was kept
C21_Witness ==
  /\ rot.op = "removeKeyMetadata"
  /\ RecordsIn(rot.before) = KeyNames
  /\ RecordsIn(metaFile) = KeyNames \ {rot.keyName}

\* ------------------------------------------------------------------
\* rotateKeyWithAudit on a key that was stored some time ago: the state
\* after storeBaseEnvironmentKey(base, K1, kA) at time 0 and a wait.
MaxAgedNow == 3        \* the latest time of the first call in SpecAged

AgedConfigs == {[maxAgeInDays |-> 2, warningThresholdInDays |-> 1],
                [maxAgeInDays |-> 3, warningThresholdInDays |-> 1]}

\* time 0, and the first tick of each day that follows
AgedTimes == {t \in 0..MaxAgedNow : t = 0 \/ t % TicksPerDay = 1}

\* the record of K1 as storeBaseEnvironmentKey left it at time 0
AgedMetadata ==
  [StoredMetadata("K1", keyRotationConfig, Undef) EXCEPT
     !.auditTrail.auditEvents =
        <<[timestamp |-> 0, eventType |-> "created", severity |-> "info",
           source |-> "storeBaseEnvironmentKey", details |-> "key stored"]>>]

InitAged ==
  /\ keyRotationConfig \in AgedConfigs
  /\ now \in AgedTimes
  /\ metaFile = Put(EmptyMap, "K1", AgedMetadata)
  /\ secrets = [f \in SecretFiles |-> [k \in KeyNames |->
                  IF f = BASE_ENV_FILE /\ k = "K1" THEN "kA" ELSE NoKey]]
  /\ env \in InitialEnvFiles
  /\ pc = "idle"
  /\ rot = NoRotation
  /\ ops = 0

\* the clock moves on while the call writes the updated record: the post
\* rotation status check reads the clock later than lastRotatedAt was taken
ClockTickInCall ==
  /\ pc = "recordPostRotationActivities"
  /\ now = rot.startTime
  /\ now' = now + 1
  /\ UNCHANGED <<keyRotationConfig, metaFile, secrets, env, pc, rot, ops>>

NextAged ==
  \/ CheckKeyRotationStatus
  \/ ClockTickInCall
  \/ RotateKeyWithAudit
  \/ ValidateAndGetKeyInfo
  \/ RecordRotationStartAudit
  \/ GetAndValidateOldKey
  \/ DecryptEnvironmentVariables
  \/ UpdateKeyValue
  \/ VerifyKey
  \/ ReEncryptEnvironmentVariables
  \/ ReEncryptVariables
  \/ SaveUpdatedEnvironmentFile
  \/ UpdateKeyMetadataAfterRotation
  \/ RecordPostRotationActivities
  \/ RecordSuccessAudit
  \/ PerformPostRotationHealthCheck
  \/ HandleRotationFailure
  \/ PerformCleanupAndFinalAudit
  \/ Continue

SpecAged == InitAged /\ [][NextAged]_vars

\* ---- C22
\* C22: a key's persisted statusTracking.lastStatusChange is modified only
\* by an operation that changes currentStatus to a different value: an
\* operation that leaves currentStatus equal to its previous value (a health
\* check, or a rotation of a key that is already healthy) leaves
\* lastStatusChange unchanged.
C22_StatusChangeDated ==
  [][\A k \in Kept :
       metaFile'[k].statusTracking.currentStatus
           = metaFile[k].statusTracking.currentStatus
         => metaFile'[k].statusTracking.lastStatusChange
              = metaFile[k].statusTracking.lastStatusChange]_vars

\* a status check has moved a key created healthy to warning, and dated it
C22_Witness ==
  \E k \in DOMAIN metaFile :
    /\ metaFile[k].createdAt = 0
    /\ metaFile[k].statusTracking = [currentStatus |-> "warning",
                                     lastStatusChange |-> 1]

\* ------------------------------------------------------------------
\* One key is stored, then checkKeyRotationStatus is called for it again
\* and again, the clock moving one tick before each call: the health check
\* of call number n carries timestamp n.  In between, addHealthCheckEntry is
\* handed the record as persisted; it changes the object it is handed only.
MaxHealthCalls == 52   \* calls of checkKeyRotationStatus in SpecHealth

InitHealth ==
  /\ keyRotationConfig \in ProcessConfigs
  /\ now = 0
  /\ metaFile = recordKeyStorageAuditEvent(
                  updateKeyMetadata(EmptyMap, AuditedKey, 0, FALSE, FALSE).file,
                  AuditedKey, FALSE)
  /\ secrets = [f \in SecretFiles |-> [k \in KeyNames |->
                  IF f = BASE_ENV_FILE /\ k = AuditedKey THEN "kA" ELSE NoKey]]
  /\ env = EnvFileA
  /\ pc = "idle"
  /\ rot = [op |-> "none"]
  /\ ops = 0

HealthClockTick ==
  /\ ops < MaxHealthCalls /\ now = ops
  /\ now' = now + 1
  /\ UNCHANGED <<keyRotationConfig, metaFile, secrets, env, pc, rot, ops>>

HealthCheckCall ==
  /\ ops < MaxHealthCalls /\ now = ops + 1
  /\ ops' = ops + 1
  /\ \E checked \in {checkKeyRotationStatus(metaFile, AuditedKey, "manual")} :
       /\ metaFile' = checked.file
       /\ rot' = [op |-> "checkKeyRotationStatus", returned |-> checked.status]
  /\ UNCHANGED <<keyRotationConfig, now, secrets, env, pc>>

HealthEntryCall ==
  /\ now = ops /\ rot.op # "addHealthCheckEntry"
  /\ \E success \in BOOLEAN, reason \in Reasons :
       rot' = [op |-> "addHealthCheckEntry", success |-> success, at |-> now,
               reason |-> reason,
               before |-> metaFile[AuditedKey],
               keyMetadata |-> addHealthCheckEntry(metaFile[AuditedKey], success, reason)]
  /\ UNCHANGED <<keyRotationConfig, now, metaFile, secrets, env, pc, ops>>

NextHealth == HealthClockTick \/ HealthCheckCall \/ HealthEntryCall

SpecHealth == InitHealth /\ [][NextHealth]_vars

\* ---- C23
\* C23: the healthCheckHistory of a key is bounded: after any
\* checkKeyRotationStatus the persisted history has at most 50 entries, and
\* after addHealthCheckEntry the record's history has at most 25 entries; in
\* both cases the oldest entries are the ones dropped.
C23_HealthHistoryCapped ==
  /\ LET history == metaFile[AuditedKey].auditTrail.healthCheckHistory IN
     /\ Len(history) <= MAX_HEALTH_CHECK_ENTRIES
     /\ Len(history) = IF ops <= MAX_HEALTH_CHECK_ENTRIES
                         THEN ops ELSE MAX_HEALTH_CHECK_ENTRIES
     /\ \A i \in 1..Len(history) : history[i].timestamp = ops - Len(history) + i
  /\ rot.op = "addHealthCheckEntry" =>
       LET before == rot.before.auditTrail.healthCheckHistory
           history == rot.keyMetadata.auditTrail.healthCheckHistory
           kept == Len(history) - 1
       IN /\ Len(history) <= MAX_ROTATION_HEALTH_ENTRIES
          /\ Len(history) = IF Len(before) + 1 <= MAX_ROTATION_HEALTH_ENTRIES
                              THEN Len(before) + 1 ELSE MAX_ROTATION_HEALTH_ENTRIES
          /\ history[Len(history)].timestamp = rot.at
          /\ history[Len(history)].status
               = rot.keyMetadata.statusTracking.currentStatus
          /\ \A i \in 1..kept : history[i] = before[Len(before) - kept + i]

\* the 51st status check has been persisted, and a record with 50 entries
\* has been handed to addHealthCheckEntry
C23_Witness ==
  /\ ops > MAX_HEALTH_CHECK_ENTRIES
  /\ Len(metaFile[AuditedKey].auditTrail.healthCheckHistory) = MAX_HEALTH_CHECK_ENTRIES
  /\ rot.op = "addHealthCheckEntry"
  /\ Len(rot.before.auditTrail.healthCheckHistory) = MAX_HEALTH_CHECK_ENTRIES
  /\ Len(rot.keyMetadata.auditTrail.healthCheckHistory) = MAX_ROTATION_HEALTH_ENTRIES

\* ------------------------------------------------------------------
\* The context fixture of orangehrm.fixtures.ts, test after test.  rot is
\* the record of the last context created: the test, the option, what the
\* helpers answered, and the storageState handed to browser.newContext.
MaxFixtureCalls == 4   \* tests run by the worker in SpecFixture

\* the list handed to AuthenticationFilter.shouldSkipAuthSetup
SkipAuthTitles == {"verify URL and title", "Invalid Credentials",
                   "login footer details", "reset password", "forgot password"}
TestTitles == SkipAuthTitles \cup {"view dashboard", "add employee"}

AuthStatePath == "auth-state-file"   \* resolveAuthStateFilePath()
NoStorageState == "undefined"

\* AuthenticationFilter.shouldSkipAuthSetup(testInfo, titles)
shouldSkipAuthSetup(title, titles) == title \in titles

\* variant of the fixture that does not look at the filter
contextStorageState_NoFilter(shouldSaveAuthState, shouldSkipAuth, fileExists) ==
  IF shouldSaveAuthState
    THEN (IF fileExists THEN AuthStatePath ELSE NoStorageState)
    ELSE NoStorageState

\* the storageState the fixture hands to browser.newContext
contextStorageState(shouldSaveAuthState, shouldSkipAuth, fileExists) ==
  IF shouldSaveAuthState /\ ~shouldSkipAuth
    THEN (IF fileExists THEN AuthStatePath ELSE NoStorageState)
    ELSE NoStorageState

InitFixture ==
  /\ keyRotationConfig \in ProcessConfigs
  /\ now = 0
  /\ metaFile = EmptyMap
  /\ secrets = [f \in SecretFiles |-> [k \in KeyNames |-> NoKey]]
  /\ env = EnvFileA
  /\ pc = "idle"
  /\ rot = [op |-> "none"]
  /\ ops = 0

\* one test: the fixture creates the context of the test
CreateContext ==
  \E title \in TestTitles, shouldSaveAuthState \in BOOLEAN, fileExists \in BOOLEAN :
    /\ ops < MaxFixtureCalls
    /\ ops' = ops + 1
    /\ rot' = [op |-> "context", title |-> title,
               shouldSaveAuthState |-> shouldSaveAuthState,
               shouldSkipAuth |-> shouldSkipAuthSetup(title, SkipAuthTitles),
               fileExists |-> fileExists,
               storageState |->
                 contextStorageState(shouldSaveAuthState,
                   shouldSkipAuthSetup(title, SkipAuthTitles), fileExists),
               threw |-> FALSE]
    /\ UNCHANGED <<keyRotationConfig, now, metaFile, secrets, env, pc>>

NextFixture == CreateContext

SpecFixture == InitFixture /\ [][NextFixture]_vars

\* ---- C24
\* C24: the context fixture passes the stored auth-state file as storageState
\* to the new browser context if and only if shouldSaveAuthState is true, the
\* test is not filtered out by AuthenticationFilter, and the auth-state file
\* exists; in every other case the context is created with storageState
\* undefined (a fresh session) and no error is raised.
C24_StorageStateLoaded ==
  rot.op = "context" =>
    LET loads == /\ rot.shouldSaveAuthState
                 /\ rot.title \notin SkipAuthTitles
                 /\ rot.fileExists
    IN /\ (rot.storageState = AuthStatePath) <=> loads
       /\ ~loads => (rot.storageState = NoStorageState /\ ~rot.threw)

\* a filtered test got a fresh session although the auth-state file exists
C24_Witness ==
  /\ rot.op = "context"
  /\ rot.shouldSaveAuthState /\ rot.fileExists
  /\ rot.title = "Invalid Credentials"
  /\ rot.storageState = NoStorageState

\* ---- C25
\* the variables of the environment file, as it was when the call began,
\* whose decryption under the old key fails
FailedToDecrypt ==
  {v \in VarNames : rot.envBefore[v].enc /\ rot.envBefore[v].key # rot.oldKeyValue}

\* the variable holds, under the new key, the text it gave under the old one
ReEncrypted(v) ==
  /\ isEncryptedValue(env[v])
  /\ decrypt(env[v], rot.newKeyValue).ok
  /\ decrypt(env[v], rot.newKeyValue).pt = rot.envBefore[v].pt

RotationHistoryOf(keyName) ==
  IF keyName \in DOMAIN metaFile
    THEN metaFile[keyName].auditTrail.rotationHistory ELSE <<>>

\* C26: when a rotateKeyWithAudit call on a key that had a record is over,
\* the persisted rotationHistory of the key is one entry longer than it was
\* when the call began; the new entry is the last one, carries the start
\* time of the call, and its success flag is the outcome of the call: TRUE
\* when the call returned, FALSE with the message of the error as
\* errorDetails when the call threw.
C26_OneRotationEventPerAttempt ==
  (pc = "done" /\ rot.countBefore # Undef) =>
    LET history == RotationHistoryOf(rot.keyName)
        entry == history[Len(history)]
    IN /\ Len(history) = Len(rot.historyBefore) + 1
       /\ entry.timestamp = rot.startTime
       /\ entry.success = (rot.outcome = "returned")
       /\ rot.outcome = "thrown" =>
            (rot.error # "none" /\ entry.errorDetails = rot.error)
       /\ rot.outcome = "returned" => entry.errorDetails = "none"

\* a second attempt on the same key has thrown, after a first one was recorded
C26_Witness ==
  /\ RotationThrew
  /\ rot.countBefore # Undef
  /\ Len(rot.historyBefore) = 1
  /\ Len(RotationHistoryOf(rot.keyName)) = 2
  /\ ~RotationHistoryOf(rot.keyName)[2].success

\* ------------------------------------------------------------------ C27
BothListsEmpty(entry) ==
  entry.affectedEnvironments = <<>> /\ entry.affectedVariables = <<>>

\* the entry is as it was, but for the two lists of what was affected
BackFilled(old, new) ==
  new = [old EXCEPT !.affectedEnvironments = new.affectedEnvironments,
                    !.affectedVariables = new.affectedVariables]

\* C27: in every step, every entry of the persisted rotationHistory of a
\* key stays where it is and as it is; the one exception is an entry with
\* both affected lists empty that does not record a failed rotation, which
\* may get its two lists filled.  An entry recording a failed rotation is
\* never changed.
C27_RotationEventsImmutable ==
  [][\A k \in Kept :
       LET old == metaFile[k].auditTrail.rotationHistory
           new == metaFile'[k].auditTrail.rotationHistory
       IN /\ Len(new) >= Len(old)
          /\ \A i \in 1..Len(old) :
               \/ new[i] = old[i]
               \/ /\ old[i].success
                  /\ BothListsEmpty(old[i])
                  /\ BackFilled(old[i], new[i])]_vars

\* the entry of a failed rotation carries the files and variables of a
\* later, successful one
C27_Witness ==
  \E k \in DOMAIN metaFile :
    LET history == metaFile[k].auditTrail.rotationHistory IN
    /\ Len(history) = 2
    /\ ~history[1].success /\ history[1].errorDetails # "none"
    /\ history[1].affectedEnvironments # <<>>
    /\ history[1].affectedVariables # <<>>
    /\ history[2].success

\* ------------------------------------------------------------------ C28
HasCriticalHealthCheck(keyMetadata, at) ==
  \E i \in 1..Len(keyMetadata.auditTrail.healthCheckHistory) :
    /\ keyMetadata.auditTrail.healthCheckHistory[i].status = "critical"
    /\ keyMetadata.auditTrail.healthCheckHistory[i].timestamp >= at

HasCriticalRotatedEvent(keyMetadata, at) ==
  \E i \in 1..Len(keyMetadata.auditTrail.auditEvents) :
    /\ keyMetadata.auditTrail.auditEvents[i].eventType = "rotated"
    /\ keyMetadata.auditTrail.auditEvents[i].severity = "critical"
    /\ keyMetadata.auditTrail.auditEvents[i].source = "rotateKeyWithAudit"
    /\ keyMetadata.auditTrail.auditEvents[i].timestamp >= at

\* C28: once rotateKeyWithAudit has thrown for a key that had a record, the
\* persisted record of the key has a health-check entry of status critical
\* made during the call, its currentStatus is critical, and it has a
\* 'rotated' audit event of severity critical made during the call.
C28_FailurePersisted ==
  (RotationThrew /\ rot.countBefore # Undef) =>
    /\ rot.keyName \in DOMAIN metaFile
    /\ HasCriticalHealthCheck(metaFile[rot.keyName], rot.startTime)
    /\ metaFile[rot.keyName].statusTracking.currentStatus = "critical"
    /\ HasCriticalRotatedEvent(metaFile[rot.keyName], rot.startTime)

\* the call has thrown and the critical audit event is persisted; the
\* critical health check and status are in the record object of the catch
\* block, and not in the persisted record
C28_Witness ==
  /\ RotationThrew /\ rot.countBefore # Undef
  /\ rot.keyName \in DOMAIN metaFile
  /\ HasCriticalRotatedEvent(metaFile[rot.keyName], rot.startTime)
  /\ rot.updatedMetadata.statusTracking.currentStatus = "critical"
  /\ HasCriticalHealthCheck(rot.updatedMetadata, rot.startTime)
  /\ metaFile[rot.keyName].statusTracking.currentStatus # "critical"
  /\ ~HasCriticalHealthCheck(metaFile[rot.keyName], rot.startTime)

\* ------------------------------------------------------------------ C29
\* whether the key was due for rotation when the call began
NeededRotationBefore ==
  LET metadata == rot.existingMetadata
      referenceDate == IF metadata.lastRotatedAt # Undef
                         THEN metadata.lastRotatedAt ELSE metadata.createdAt
      ageInDays == (rot.startTime - referenceDate + TicksPerDay - 1) \div TicksPerDay
  IN ageInDays >= getValidatedRotationConfig(metadata).maxAgeInDays

\* C29: when rotateKeyWithAudit has returned, the persisted lastRotatedAt of
\* the key is the time of this rotation and its persisted currentStatus is
\* healthy; a checkKeyRotationStatus made now measures the age from that
\* lastRotatedAt and does not report that the key needs rotation.
C29_RotatedKeyIsHealthy ==
  RotationReturned =>
    LET metadata == metaFile[rot.keyName]
        status == checkKeyRotationStatus(metaFile, rot.keyName, "manual").status
    IN /\ metadata.lastRotatedAt = rot.startTime
       /\ metadata.statusTracking.currentStatus = "healthy"
       /\ status.ageInDays =
            (now - metadata.lastRotatedAt + TicksPerDay - 1) \div TicksPerDay
       /\ ~status.needsRotation

\* a key that was due has been rotated, the call has returned, and the
\* persisted status of the key is warning
C29_Witness ==
  /\ RotationReturned
  /\ NeededRotationBefore
  /\ metaFile[rot.keyName].lastRotatedAt = rot.startTime
  /\ now > rot.startTime
  /\ metaFile[rot.keyName].statusTracking.currentStatus = "warning"
  /\ ~checkKeyRotationStatus(metaFile, rot.keyName, "manual").status.needsRotation

\* ------------------------------------------------------------------ C30
\* the status of the entry the last addHealthCheckEntry call made
DerivedStatus ==
  rot.keyMetadata.auditTrail.healthCheckHistory[
    Len(rot.keyMetadata.auditTrail.healthCheckHistory)].status

\* what checkKeyRotationStatus returns for the same key at the same instant
StatusAtCall == checkKeyRotationStatus(metaFile, AuditedKey, "api").status

\* the status the claim expects for a successful operation
AgreedStatus ==
  IF StatusAtCall.needsRotation THEN "expired"
  ELSE IF StatusAtCall.needsWarning THEN "warning" ELSE "healthy"

JustAddedHealthCheck == rot.op = "addHealthCheckEntry" /\ now = rot.at

\* C30: for every successful operation the status that addHealthCheckEntry
\* derives is 'expired' exactly when checkKeyRotationStatus reports
\* needsRotation for the key at that instant, 'warning' exactly when it
\* reports needsWarning and 'healthy' otherwise; for a failed operation it
\* is 'critical'.
C30_StatusesAgree ==
  JustAddedHealthCheck =>
    DerivedStatus = IF rot.success THEN AgreedStatus ELSE "critical"

\* a successful operation of reason 'expired' on a key that is due for
\* rotation: the derived status is healthy
C30_Witness ==
  /\ JustAddedHealthCheck
  /\ rot.success /\ rot.reason = "expired"
  /\ StatusAtCall.needsRotation
  /\ DerivedStatus = "healthy"

\* the two agree for the other reasons, the boundary included
AgreeUnlessExpiredReason ==
  (JustAddedHealthCheck /\ rot.reason # "expired") =>
    DerivedStatus = IF rot.success THEN AgreedStatus ELSE "critical"

\* a successful operation on a key whose age is exactly maxAgeInDays -
\* warningThresholdInDays
AgreeAtBoundary ==
  /\ JustAddedHealthCheck
  /\ rot.success /\ rot.reason # "expired"
  /\ StatusAtCall.ageInDays =
       rot.before.rotationConfig.maxAgeInDays
         - rot.before.rotationConfig.warningThresholdInDays
  /\ StatusAtCall.needsWarning
  /\ DerivedStatus = "warning"

\* ------------------------------------------------------------------ C31
\* a step that is one checkKeyRotationStatus call of the caller
IsStatusCheckStep == pc = "idle" /\ pc' = "idle" /\ ops' = ops + 1

\* the audit events a status check of the key adds
ExpectedCheckEvents(keyName) ==
  IF NeedsRotation(metaFile, keyName)
    THEN <<[eventType |-> "expired", severity |-> "critical"]>>
  ELSE IF NeedsWarning(metaFile, keyName)
    THEN <<[eventType |-> "warning_issued", severity |-> "warning"]>>
  ELSE <<>>

TypeAndSeverity(events) ==
  [i \in 1..Len(events) |->
     [eventType |-> events[i].eventType, severity |-> events[i].severity]]

OutcomeBeforeCleanup ==
  IF rot.rotationResult.success THEN "returned" ELSE "thrown"

\* C32: when a rotateKeyWithAudit call is over, returned or thrown, the
\* cleanup has run and the cache of decrypted values is empty; the system
\* audit was triggered exactly when the reason is 'expired' or
\* 'compromised'; and when that audit failed the caller still gets the
\* result, or the error, that the call had before the cleanup.
C32_CleanupAlwaysRuns ==
  pc = "done" =>
    /\ rot.cleanedUp
    /\ rot.decryptedDataCache = EmptyMap
    /\ (rot.systemAudit # "none") = (rot.reason \in {"expired", "compromised"})
    /\ rot.outcome = OutcomeBeforeCleanup
    /\ (rot.outcome = "returned") = (rot.error = "none")
    /\ rot.outcome = "thrown" => rot.error # "system audit failed"

\* a call that returns and a call that throws, each with a failed audit
C32_Witness ==
  /\ RotationReturned
  /\ rot.systemAudit = "failed"
  /\ rot.cleanedUp

C32_WitnessThrown ==
  /\ RotationThrew
  /\ rot.systemAudit = "failed"
  /\ rot.countBefore # Undef

\* ------------------------------------------------------------------ C33
ElementsOf(list) == {list[i] : i \in 1..Len(list)}
NoDuplicates(list) == Cardinality(ElementsOf(list)) = Len(list)

\* C33: in every step of a sequence of rotateKeyWithAudit calls (with the
\* updateAuditTrail calls they make) and status checks, the persisted
\* environmentsUsedIn and dependentVariables of a key lose no element, and
\* neither list ever holds an element twice.
C33_UsageTrackingOnlyGrows ==
  [][\A k \in Kept :
       LET old == metaFile[k].usageTracking
           new == metaFile'[k].usageTracking
       IN /\ ElementsOf(old.environmentsUsedIn) \subseteq ElementsOf(new.environmentsUsedIn)
          /\ ElementsOf(old.dependentVariables) \subseteq ElementsOf(new.dependentVariables)
          /\ NoDuplicates(new.environmentsUsedIn)
          /\ NoDuplicates(new.dependentVariables)]_vars

\* the key has been rotated twice over the same environment file
C33_Witness ==
  /\ "K1" \in DOMAIN metaFile
  /\ metaFile["K1"].rotationCount = 2
  /\ metaFile["K1"].usageTracking.environmentsUsedIn = <<EnvironmentFile>>
  /\ Len(metaFile["K1"].usageTracking.dependentVariables) = 2

\* ============================================ writes that fail (C34)
\* The calls that keep the audit trail are made again here with the write
\* of the metadata file working or failing: writeKeyMetadata throws and
\* leaves the file as it was.
attemptWrite(file, written, writeWorks) ==
  IF writeWorks THEN [file |-> written, threw |-> FALSE]
                ELSE [file |-> file, threw |-> TRUE]

\* variant of caughtAndLogged: the catch block throws the error on
caughtAndLogged_Rethrown(attempt) == attempt

\* try { ... } catch (error) { logger.error(...) }: the call returns
caughtAndLogged(attempt) == [file |-> attempt.file, threw |-> FALSE]

recordAuditEventUnder(file, keyName, eventType, severity, source, details, writeWorks) ==
  caughtAndLogged(attemptWrite(file,
    recordAuditEvent(file, keyName, eventType, severity, source, details), writeWorks))

recordHealthCheckUnder(file, keyName, ageInDays, daysUntilExpiry, status, checkSource, writeWorks) ==
  caughtAndLogged(attemptWrite(file,
    recordHealthCheck(file, keyName, ageInDays, daysUntilExpiry, status, checkSource),
    writeWorks))

recordKeyAccessUnder(file, keyName, accessSource, writeWorks) ==
  caughtAndLogged(attemptWrite(file, recordKeyAccess(file, keyName, accessSource),
                               writeWorks))

updateAuditTrailUnder(file, keyName, reason, startTime, affectedFiles, reEncryptedCount, shouldRotateKey, success, errorDetails, processedVariableNames, writeWorks) ==
  caughtAndLogged(attemptWrite(file,
    updateAuditTrail(file, keyName, reason, startTime, affectedFiles, reEncryptedCount,
                     shouldRotateKey, success, errorDetails, processedVariableNames),
    writeWorks))

\* checkKeyRotationStatus: an error that reaches its own catch is thrown on
checkKeyRotationStatusUnder(file, keyName, checkSource, healthWrite, eventWrite) ==
  LET status == checkKeyRotationStatus(file, keyName, checkSource).status
      health == recordHealthCheckUnder(file, keyName, status.ageInDays,
                  status.daysUntilRotation,
                  determineHealthStatusAndRecommendations(status), checkSource,
                  healthWrite)
      events == caughtAndLogged(attemptWrite(health.file,
                  recordRotationAuditEvents(health.file, keyName, status), eventWrite))
  IN IF keyName \notin DOMAIN readKeyMetadata(file)
       THEN [status |-> status, file |-> file, threw |-> FALSE]
     ELSE IF health.threw
       THEN [status |-> status, file |-> health.file, threw |-> TRUE]
     ELSE [status |-> status, file |-> events.file, threw |-> events.threw]

InitBestEffort ==
  /\ keyRotationConfig \in AgedConfigs
  /\ now \in AgedTimes
  /\ metaFile = Put(EmptyMap, "K1", AgedMetadata)
  /\ secrets = [f \in SecretFiles |-> [k \in KeyNames |->
                  IF f = BASE_ENV_FILE /\ k = "K1" THEN "kA" ELSE NoKey]]
  /\ env \in InitialEnvFiles
  /\ pc = "idle"
  /\ rot = NoRotation
  /\ ops = MaxCallsBeforeRotation

\* a status check of the caller; rot holds what the caller got
CheckKeyRotationStatusUnder ==
  \E keyName \in KeyNames, healthWrite \in BOOLEAN, eventWrite \in BOOLEAN :
    \E checked \in {checkKeyRotationStatusUnder(metaFile, keyName, "manual",
                                                healthWrite, eventWrite)} :
      /\ CanCall
      /\ ops' = ops + 1
      /\ metaFile' = checked.file
      /\ rot' = [op |-> "checkKeyRotationStatus", keyName |-> keyName,
                 before |-> metaFile, returned |-> checked.status,
                 threw |-> checked.threw,
                 failedWrites |-> (IF healthWrite THEN 0 ELSE 1)
                                    + (IF eventWrite THEN 0 ELSE 1)]
      /\ pc' = "checked"
      /\ UNCHANGED <<keyRotationConfig, now, secrets, env>>

ContinueAfterCheck ==
  /\ pc = "checked"
  /\ rot' = NoRotation
  /\ pc' = "idle"
  /\ UNCHANGED <<keyRotationConfig, now, metaFile, secrets, env, ops>>

\* the trace of the call, with a mark for every write that failed
LoggedWrites(trace, writes) ==
  trace \o SelectSeq(writes, LAMBDA w : w = "writeFailed")
MarkOf(writeWorks) == IF writeWorks THEN "written" ELSE "writeFailed"

RecordPostRotationActivitiesUnder ==
  /\ pc = "recordPostRotationActivities"
  /\ \E accessWrite \in BOOLEAN :
       \E access \in {recordKeyAccessUnder(metaFile, rot.keyName, "rotation-service",
                                           accessWrite)} :
         /\ metaFile' = access.file
         /\ IF access.threw THEN Throw("failed to record key access")
            ELSE /\ rot' = [rot EXCEPT
                      !.updatedMetadata = addHealthCheckEntry(@, TRUE, rot.reason),
                      !.trace = LoggedWrites(@, <<MarkOf(accessWrite)>>)]
                 /\ pc' = "recordSuccessAudit"
  /\ UNCHANGED <<keyRotationConfig, now, secrets, env, ops>>

RecordSuccessAuditUnder ==
  /\ pc = "recordSuccessAudit"
  /\ \E trailWrite \in BOOLEAN, eventWrite \in BOOLEAN :
       \E trail \in {updateAuditTrailUnder(metaFile, rot.keyName, rot.reason,
                        rot.startTime, <<EnvironmentFile>>,
                        rot.rotationResult.reEncryptedCount, rot.shouldRotateKey,
                        TRUE, "none", rot.processedVariableNames, trailWrite)} :
         \E event \in {recordAuditEventUnder(trail.file, rot.keyName, "rotated",
                          "info", "rotateKeyWithAudit",
                          "key rotation completed successfully", eventWrite)} :
           IF trail.threw
             THEN metaFile' = trail.file /\ Throw("failed to update audit trail")
           ELSE IF event.threw
             THEN metaFile' = event.file /\ Throw("failed to record audit event")
           ELSE /\ metaFile' = event.file
                /\ rot' = [rot EXCEPT !.trace =
                             LoggedWrites(@, <<MarkOf(trailWrite), MarkOf(eventWrite)>>)]
                /\ pc' = "performPostRotationHealthCheck"
  /\ UNCHANGED <<keyRotationConfig, now, secrets, env, ops>>

PerformPostRotationHealthCheckUnder ==
  /\ pc = "performPostRotationHealthCheck"
  /\ \E healthWrite \in BOOLEAN, eventWrite \in BOOLEAN :
       \E checked \in {checkKeyRotationStatusUnder(metaFile, rot.keyName, "manual",
                                                   healthWrite, eventWrite)} :
         /\ metaFile' = checked.file
         /\ IF checked.threw THEN Throw("status check failed")
            ELSE /\ rot' = [rot EXCEPT !.trace =
                             LoggedWrites(@, <<MarkOf(healthWrite), MarkOf(eventWrite)>>)]
                 /\ pc' = "finally"
  /\ UNCHANGED <<keyRotationConfig, now, secrets, env, ops>>

NextBestEffort ==
  \/ CheckKeyRotationStatusUnder
  \/ ContinueAfterCheck
  \/ RotateKeyWithAudit
  \/ ValidateAndGetKeyInfo
  \/ RecordRotationStartAudit
  \/ GetAndValidateOldKey
  \/ DecryptEnvironmentVariables
  \/ UpdateKeyValue
  \/ VerifyKey
  \/ ReEncryptEnvironmentVariables
  \/ ReEncryptVariables
  \/ SaveUpdatedEnvironmentFile
  \/ UpdateKeyMetadataAfterRotation
  \/ RecordPostRotationActivitiesUnder
  \/ RecordSuccessAuditUnder
  \/ PerformPostRotationHealthCheckUnder
  \/ HandleRotationFailure
  \/ PerformCleanupAndFinalAudit
  \/ Continue

SpecBestEffort == InitBestEffort /\ [][NextBestEffort]_vars

\* ------------------------------------------------------------------ C34
\* C34: a status check whose writes of the health-check entry or of the
\* audit event fail still returns, with the status it computed; and a
\* rotateKeyWithAudit call whose key swap, re-encryption and metadata
\* update succeeded returns with success, whichever of the writes of the
\* key access, the rotation history, the audit event and the health check
\* that follow have failed.
C34_AuditFailuresNeverAbort ==
  /\ pc = "checked" =>
       /\ ~rot.threw
       /\ rot.returned = checkKeyRotationStatus(rot.before, rot.keyName, "manual").status
  /\ (pc = "done" /\ Positions("updateMetadata") # {}) =>
       /\ rot.outcome = "returned"
       /\ rot.rotationResult.success

\* the rotation has returned although all five writes after the metadata
\* update failed
C34_Witness ==
  /\ RotationReturned
  /\ Cardinality(Positions("writeFailed")) = 5
  /\ metaFile[rot.keyName].rotationCount = rot.countBefore + 1

\* the status check of an overdue key has returned, both writes failed
C34_WitnessCheck ==
  /\ pc = "checked"
  /\ rot.failedWrites = 2
  /\ rot.returned.needsRotation
  /\ metaFile = rot.before

\* ===================================== two callers of the store (C35)
\* Two callers each make one read-modify-write call on the metadata store.
\* A call is suspended at `await readKeyMetadata()` and at `await
\* writeKeyMetadata(...)`; the other caller may run in between.  rot holds
\* the locals of both calls, ops counts the reads and writes made.
Callers == {1, 2}
StoreCalls == {"updateSingleKeyMetadata", "recordAuditEvent"}

CallerIdle == [at |-> "idle"]

\* the record caller p hands to updateSingleKeyMetadata
RecordOf(p, keyName) ==
  [StoredMetadata(keyName, keyRotationConfig, now) EXCEPT !.rotationCount = p]

\* the event caller p hands to recordAuditEvent
EventOf(p) ==
  [timestamp |-> now, eventType |-> "accessed", severity |-> "info",
   source |-> IF p = 1 THEN "caller1" ELSE "caller2", details |-> "external event"]

InitConcurrent ==
  /\ keyRotationConfig \in ProcessConfigs
  /\ now = 0
  /\ metaFile = [k \in KeyNames |-> StoredMetadata(k, keyRotationConfig, Undef)]
  /\ secrets = [f \in SecretFiles |-> [k \in KeyNames |-> NoKey]]
  /\ env = EnvFileA
  /\ pc = "idle"
  /\ rot = [p \in Callers |-> CallerIdle]
  /\ ops = 0

\* const currentMetadata = await this.readKeyMetadata()
ReadStore(p) ==
  /\ rot[p].at = "idle"
  /\ \E call \in StoreCalls, keyName \in KeyNames :
       rot' = [rot EXCEPT ![p] =
                 [at |-> "read", call |-> call, keyName |-> keyName,
                  metadata |-> readKeyMetadata(metaFile),
                  readAt |-> ops + 1, wroteAt |-> Undef, threw |-> FALSE]]
  /\ ops' = ops + 1
  /\ UNCHANGED <<keyRotationConfig, now, metaFile, secrets, env, pc>>

\* variant of updatedMap: the map is read again when it is written
updatedMap_ReadAgain(call, metadata, file, keyName, p) ==
  IF call = "updateSingleKeyMetadata"
    THEN Put(readKeyMetadata(file), keyName, RecordOf(p, keyName))
    ELSE [readKeyMetadata(file) EXCEPT ![keyName].auditTrail.auditEvents =
            limitAuditEvents(Append(@, EventOf(p)))]

\* the map the call writes: the one it read, with its own change
updatedMap(call, metadata, file, keyName, p) ==
  IF call = "updateSingleKeyMetadata"
    THEN Put(metadata, keyName, RecordOf(p, keyName))
    ELSE [metadata EXCEPT ![keyName].auditTrail.auditEvents =
            limitAuditEvents(Append(@, EventOf(p)))]

\* await this.writeKeyMetadata(currentMetadata); recordAuditEvent catches
\* what the write throws, updateSingleKeyMetadata throws it on
WriteStore(p) ==
  /\ rot[p].at = "read"
  /\ \E written \in {writeKeyMetadata(metaFile,
                        updatedMap(rot[p].call, rot[p].metadata, metaFile,
                                   rot[p].keyName, p))} :
       /\ metaFile' = written.file
       /\ rot' = [rot EXCEPT ![p].at = "done", ![p].wroteAt = ops + 1,
                             ![p].threw = (~written.ok
                                            /\ rot[p].call = "updateSingleKeyMetadata")]
  /\ ops' = ops + 1
  /\ UNCHANGED <<keyRotationConfig, now, secrets, env, pc>>

NextConcurrent ==
  \/ \E p \in Callers : ReadStore(p)
  \/ \E p \in Callers : WriteStore(p)

SpecConcurrent == InitConcurrent /\ [][NextConcurrent]_vars

\* ------------------------------------------------------------------ C35
BothDone == \A p \in Callers : rot[p].at = "done"

\* the change of caller p is in the file
UpdatePresent(p) ==
  IF rot[p].call = "updateSingleKeyMetadata"
    THEN metaFile[rot[p].keyName].rotationCount = p
    ELSE \E i \in 1..Len(metaFile[rot[p].keyName].auditTrail.auditEvents) :
           metaFile[rot[p].keyName].auditTrail.auditEvents[i] = EventOf(p)

\* q read the store before p wrote it, and wrote it after p did
Interleaved(p, q) ==
  rot[q].readAt < rot[p].wroteAt /\ rot[p].wroteAt < rot[q].wroteAt

\* calls whose changes do not replace each other when made one after the
\* other: they are on different keys, or both add an audit event
Independent(p, q) ==
  \/ rot[p].keyName # rot[q].keyName
  \/ rot[p].call = "recordAuditEvent" /\ rot[q].call = "recordAuditEvent"

\* C35: two read-modify-write calls on the metadata store are not kept
\* apart.  When both have completed, neither has thrown; the change of one
\* call is missing from the file exactly when the other call read the
\* store before that change was written and wrote the store after it (the
\* calls being on different keys, or both adding an audit event).  Made
\* one after the other, the calls lose no change of a different key.
C35_LostUpdate ==
  BothDone =>
    /\ \A p \in Callers : ~rot[p].threw
    /\ \A p \in Callers : \A q \in Callers \ {p} :
         Independent(p, q) => (UpdatePresent(p) <=> ~Interleaved(p, q))

\* both calls have completed without error, on different keys, and the
\* file lacks the record that caller 1 wrote
C35_Witness ==
  /\ BothDone
  /\ \A p \in Callers : ~rot[p].threw /\ rot[p].call = "updateSingleKeyMetadata"
  /\ rot[1].keyName # rot[2].keyName
  /\ ~UpdatePresent(1)
  /\ UpdatePresent(2)

\* the same two calls made one after the other: both changes are there
C35_WitnessSequential ==
  /\ BothDone
  /\ rot[1].wroteAt < rot[2].readAt
  /\ rot[1].keyName # rot[2].keyName
  /\ UpdatePresent(1) /\ UpdatePresent(2)

\* ================================= a blank encrypted value (C36, C37)
\* an environment file whose first value is a blank string encrypted under
\* the key in use, next to a value that is not blank
EnvFileD == [v \in VarNames |-> IF v = "V1" THEN CipherValue("kA", " ")
                                            ELSE CipherValue("kA", "s")]

\* one rotation of the key K1, stored at time 0 with the value kA
\* every value encrypted under the key of K1
EnvFileE == [v \in VarNames |-> CipherValue("kA", "s")]

InitBlank ==
  /\ keyRotationConfig \in AgedConfigs
  /\ now \in AgedTimes
  /\ metaFile = Put(EmptyMap, "K1", AgedMetadata)
  /\ secrets = [f \in SecretFiles |-> [k \in KeyNames |->
                  IF f = BASE_ENV_FILE /\ k = "K1" THEN "kA" ELSE NoKey]]
  /\ env \in {EnvFileA, EnvFileD, EnvFileE}
  /\ pc = "idle"
  /\ rot = NoRotation
  /\ ops = MaxCallsBeforeRotation

SpecBlank == InitBlank /\ [][NextAged]_vars

\* ------------------------------------------------------------------ C36
AllDecryptUnder(envFile, material) ==
  \A v \in DOMAIN envFile :
    isEncryptedValue(envFile[v]) => decrypt(envFile[v], material).ok

\* C36: when every encrypted value of the environment file decrypted under
\* the key in use before the call and rotateKeyWithAudit has returned,
\* every encrypted value of the file decrypts under the new key.
C36_NothingLeftUnderOldKey ==
  (RotationReturned /\ AllDecryptUnder(rot.envBefore, rot.oldKeyValue)) =>
    AllDecryptUnder(env, rot.newKeyValue)

\* the rotation has returned and the blank value is still as it was,
\* encrypted under the key that the rotation replaced
C36_Witness ==
  /\ RotationReturned
  /\ AllDecryptUnder(rot.envBefore, rot.oldKeyValue)
  /\ rot.newKeyValue # rot.oldKeyValue
  /\ getKeyValue(secrets, BASE_ENV_FILE, rot.keyName) = rot.newKeyValue
  /\ env["V1"] = rot.envBefore["V1"]
  /\ decrypt(env["V1"], rot.oldKeyValue).ok
  /\ ~decrypt(env["V1"], rot.newKeyValue).ok
  /\ decrypt(env["V2"], rot.newKeyValue).ok

\* C37: within one rotateKeyWithAudit call the environment file is written at
\* most once, and only after every decrypted variable has been encrypted under
\* the new key; while nothing has been written the file is as it was when the
\* call began, so an encrypt call that fails leaves it exactly as before.
InRotationCall == rot.keyName \in KeyNames

EnvWrites == Positions("writeEnvironmentFile")

C37_EnvironmentFileWrittenOnce ==
  InRotationCall =>
    /\ Cardinality(EnvWrites) <= 1
    /\ \A w \in EnvWrites :
         /\ Cardinality(Positions("encrypt")) = Cardinality(DOMAIN rot.decryptedData)
         /\ \A e \in Positions("encrypt") : e < w
         /\ \A v \in DOMAIN rot.decryptedData :
              env[v] = encrypt(rot.decryptedData[v], rot.newKeyValue)
    /\ (EnvWrites = {}) => env = rot.envBefore
    /\ (rot.error = "encryption failed") => env = rot.envBefore

\* the second of two encrypt calls failed: one line was re-encrypted in
\* memory, and the call has thrown
C37_Witness ==
  /\ RotationThrew
  /\ rot.error = "encryption failed"
  /\ Cardinality(Positions("encrypt")) = 1
  /\ Cardinality(DOMAIN rot.decryptedData) = 2
  /\ rot.lines # rot.envBefore
  /\ env = rot.envBefore

\* both encrypt calls worked and the file was written, once
C37_WitnessWritten ==
  /\ RotationReturned
  /\ Cardinality(Positions("encrypt")) = 2
  /\ Cardinality(EnvWrites) = 1
  /\ env # rot.envBefore

\* C38: when rotateKeyWithAudit throws because customMaxAge gives an invalid
\* rotation configuration, the key value in the secret file and the contents
\* of the environment file are the same as before the call.
RejectedForConfig == RotationThrew /\ rot.error = "invalid rotation configuration"

C38_InvalidConfigRejectedBeforeMutation ==
  RejectedForConfig =>
    /\ getKeyValue(secrets, KeyFilePath, rot.keyName) = rot.oldKeyValue
    /\ env = rot.envBefore

\* the call was rejected for its configuration after the key was replaced
\* and the environment file rewritten under the new key
C38_Witness ==
  /\ RejectedForConfig
  /\ ~validateRotationConfig(createValidatedRotationConfig(rot.customMaxAge))
  /\ rot.newKeyValue # rot.oldKeyValue
  /\ getKeyValue(secrets, KeyFilePath, rot.keyName) = rot.newKeyValue
  /\ Positions("writeEnvironmentFile") # {}
  /\ env # rot.envBefore

\* ------------------------------------------------------------------
\* storeBaseEnvironmentKey under a warning threshold of zero (C39)
\* the process configurations validateRotationConfig accepts: a positive
\* threshold, and the threshold 0
AcceptedConfigs == {[maxAgeInDays |-> 2, warningThresholdInDays |-> 1],
                    [maxAgeInDays |-> 2, warningThresholdInDays |-> 0]}

InitAccepted ==
  /\ keyRotationConfig \in AcceptedConfigs
  /\ now = 0
  /\ metaFile = EmptyMap
  /\ secrets = [f \in SecretFiles |-> [k \in KeyNames |-> NoKey]]
  /\ env \in InitialEnvFiles
  /\ pc = "idle"
  /\ rot = [op |-> "none"]
  /\ ops = 0

SpecAccepted == InitAccepted /\ [][NextStore]_vars

\* a key has a line in the secret file exactly when it has a metadata record
LineIffRecord(files, filePath, file) ==
  \A k \in KeyNames : (files[filePath][k] # NoKey) <=> (k \in DOMAIN file)

StoredUnderAcceptedConfig ==
  /\ rot.op = "storeBaseEnvironmentKey"
  /\ LineIffRecord(rot.filesBefore, rot.filePath, rot.before)
  /\ validateRotationConfig(createRotationConfig(rot.customMaxAge))

\* C39: when storeBaseEnvironmentKey is called in a state where a key has a
\* line in the secret file exactly when it has a metadata record, under a
\* rotation configuration validateRotationConfig accepts (warning threshold 0
\* included), the same equivalence holds after the call returned or threw.
C39_SecretFileMatchesMetadata ==
  StoredUnderAcceptedConfig => LineIffRecord(secrets, rot.filePath, metaFile)

\* under the threshold 0 the call wrote the key's line and then threw at the
\* metadata write: a line without a record
C39_Witness ==
  /\ StoredUnderAcceptedConfig
  /\ keyRotationConfig.warningThresholdInDays = 0
  /\ rot.threw
  /\ ~rot.keyExists
  /\ secrets[rot.filePath][rot.keyName] = rot.keyValue
  /\ rot.keyName \notin DOMAIN metaFile
  /\ metaFile = rot.before

\* with a positive threshold the equivalence is kept
KeptUnderPositiveThreshold ==
  (StoredUnderAcceptedConfig /\ keyRotationConfig.warningThresholdInDays > 0)
    => LineIffRecord(secrets, rot.filePath, metaFile)

\* ------------------------------------------------------------------
\* the audit summaries (C40)
ReturnedSummary == rot.op \in {"performComprehensiveAudit", "getKeyInformation"}

SummaryConsistent(auditSummary) ==
  /\ auditSummary.healthyKeys >= 0
  /\ auditSummary.warningKeys >= 0
  /\ auditSummary.criticalKeys >= 0
  /\ auditSummary.healthyKeys + auditSummary.warningKeys + auditSummary.criticalKeys
       = auditSummary.totalKeys

\* C40: every AuditSummary returned by performComprehensiveAudit and by
\* getKeyInformation(includeAudit = true) has healthyKeys, warningKeys and
\* criticalKeys non-negative and summing to totalKeys.
C40_AuditSummaryConsistent ==
  ReturnedSummary => SummaryConsistent(rot.returned.auditSummary)

\* the audit of a store with one expired key returned healthyKeys = -1
C40_Witness ==
  /\ rot.op = "performComprehensiveAudit"
  /\ rot.returned.auditSummary.totalKeys = 1
  /\ rot.returned.auditSummary.criticalKeys = 1
  /\ rot.returned.auditSummary.expiredKeys = 1
  /\ rot.returned.auditSummary.healthyKeys = -1

\* getKeyInformation for a key in its warning window counted it as healthy
\* and as warning: two keys out of one
C40_WitnessOneKey ==
  /\ rot.op = "getKeyInformation"
  /\ rot.returned.exists
  /\ rot.returned.auditSummary.healthyKeys = 1
  /\ rot.returned.auditSummary.warningKeys = 1
  /\ rot.returned.auditSummary.totalKeys = 1

\* summaries of stores in which no key is expired or in its warning window
\* are consistent
HealthyStoreConsistent ==
  (/\ ReturnedSummary
   /\ rot.returned.auditSummary.criticalKeys = 0
   /\ rot.returned.auditSummary.warningKeys = 0
   /\ rot.returned.auditSummary.expiredKeys = 0)
    => SummaryConsistent(rot.returned.auditSummary)


====
